---------------------------- MODULE Spec2Model ----------------------------
(***************************************************************************)
(* State-machine model of the ArUco marker triangulation pipeline          *)
(* (triangulation.py, the stages before it, the export step of             *)
(* camera_exporter.py, the add-on's triangulator and main.py's pipeline).  *)
(*                                                                         *)
(* Numbers.  World coordinates are fixed-point integers, 40 ticks per      *)
(* world unit, so the constant 0.1 of the outlier filter is 4 ticks.       *)
(* Pixel coordinates are integers.  Quantities that the code obtains by a  *)
(* division (mean position, reprojection error, confidence) are exact      *)
(* rationals <<numerator, denominator>>.  The scenes enumerated by the     *)
(* initial predicates keep every halving and every square root exact.      *)
(***************************************************************************)
EXTENDS Integers, Sequences, FiniteSets, TLC

VARIABLES
    pipeline_stats,          \* AutoCalibrationPipeline.pipeline_stats (the two stage lists)
    stage_calls,             \* the methods run_detection_pipeline has called, with what they returned
    xmp_files,               \* camera_id -> calibration record as written in its XMP file
    xmp_cameras,             \* SimpleXMPParser.load_all_cameras output
    image_markers,           \* camera_id -> markers cv2 finds in the camera's image
    results,                 \* ArUcoOneClickProcessor.process_full_pipeline results
    opencv_cameras,          \* camera table: camera_id -> camera parameters
    marker_detections,       \* camera_id -> (marker_id -> pixel centre)
    min_cameras,             \* ArUcoTriangulator.min_cameras
    max_reprojection_error,  \* ArUcoTriangulator.max_reprojection_error
    cv2_outcomes,            \* camera pair -> results cv2.triangulatePoints may give for it
    cv2_memo,                \* results cv2.triangulatePoints has given, by arguments
    pc,                      \* position in triangulate_markers / exports
    markers_observations,    \* marker_id -> (camera_id -> observation)
    marker_order,            \* iteration order of markers_observations
    next_marker,             \* index in marker_order of the marker loop (line 244)
    marker_id,               \* marker being processed by _triangulate_marker_robust
    camera_ids,              \* list(observations.keys()) of that marker
    pair,                    \* <<i, j>> of the pair loop (lines 107-108)
    triangulated_points,     \* candidates collected for that marker
    final_3d_position,       \* consensus position of that marker
    triangulated_markers,    \* output dictionary
    blender_data,            \* triangulation.prepare_blender_export output
    exporter_data,           \* camera_exporter.prepare_blender_export output
    run,                     \* number of the current call of triangulate_markers
    first_output             \* output of the first call, kept for comparison

vars == <<pipeline_stats, stage_calls, xmp_files, xmp_cameras, image_markers, results,
          opencv_cameras, marker_detections, min_cameras, max_reprojection_error,
          cv2_outcomes, cv2_memo, pc, markers_observations, marker_order,
          next_marker, marker_id, camera_ids, pair, triangulated_points,
          final_3d_position, triangulated_markers, blender_data, exporter_data,
          run, first_output>>

-----------------------------------------------------------------------------
(* Integer and rational arithmetic *)

Abs(x) == IF x < 0 THEN -x ELSE x

Min(a, b) == IF a <= b THEN a ELSE b

Max(a, b) == IF a >= b THEN a ELSE b

RECURSIVE GCD(_, _)
GCD(a, b) == IF b = 0 THEN a ELSE GCD(b, a % b)

RECURSIVE ISqrtBetween(_, _, _)
ISqrtBetween(n, lo, hi) ==
    IF lo >= hi THEN lo
    ELSE LET mid == (lo + hi + 1) \div 2
         IN IF mid * mid <= n THEN ISqrtBetween(n, mid, hi)
                              ELSE ISqrtBetween(n, lo, mid - 1)

\* floor of the square root; 46340^2 is the largest square of the integer range
ISqrt(n) == ISqrtBetween(n, 0, Min(n, 46340))

\* a rational in lowest terms with a positive denominator
Rat(n, d) ==
    LET s == IF d < 0 THEN -1 ELSE 1
        g == GCD(Abs(n), Abs(d))
    IN <<(s * n) \div g, (s * d) \div g>>

RAdd(a, b) == Rat(a[1] * b[2] + b[1] * a[2], a[2] * b[2])

RMul(a, b) == Rat(a[1] * b[1], a[2] * b[2])

RLeq(a, b) == a[1] * b[2] <= b[1] * a[2]

RLess(a, b) == a[1] * b[2] < b[1] * a[2]

RECURSIVE RSum(_)
RSum(s) == IF s = << >> THEN <<0, 1>> ELSE RAdd(Head(s), RSum(Tail(s)))

RECURSIVE SeqSum(_)
SeqSum(s) == IF s = << >> THEN 0 ELSE Head(s) + SeqSum(Tail(s))

Range(s) == {s[i] : i \in DOMAIN s}

\* the elements of the set S of integers, in ascending order
RECURSIVE SortedSeq(_)
SortedSeq(S) ==
    IF S = {} THEN << >>
    ELSE LET m == CHOOSE x \in S : \A y \in S : x <= y
         IN <<m>> \o SortedSeq(S \ {m})

\* the k-th smallest element of the non-empty sequence s of integers
KthSmallest(s, k) ==
    CHOOSE v \in Range(s) :
        /\ Cardinality({i \in DOMAIN s : s[i] < v}) < k
        /\ Cardinality({i \in DOMAIN s : s[i] <= v}) >= k

\* np.median of a non-empty sequence: the middle element, or the mean of the two
Median(s) ==
    LET n == Len(s)
    IN IF n % 2 = 1 THEN KthSmallest(s, (n + 1) \div 2)
       ELSE (KthSmallest(s, n \div 2) + KthSmallest(s, n \div 2 + 1)) \div 2

\* np.linalg.norm of an integer vector
Norm(v) ==
    LET nz == {i \in DOMAIN v : v[i] # 0}
    IN IF nz = {} THEN 0
       ELSE IF Cardinality(nz) = 1 THEN Abs(v[CHOOSE i \in nz : TRUE])
       ELSE ISqrt(SeqSum([i \in DOMAIN v |-> v[i] * v[i]]))

Vec3Sub(a, b) == <<a[1] - b[1], a[2] - b[2], a[3] - b[3]>>

Vec3Scale(k, a) == <<k * a[1], k * a[2], k * a[3]>>

\* matrix (sequence of rows) times vector
MatVec(m, v) == [r \in DOMAIN m |-> SeqSum([c \in DOMAIN v |-> m[r][c] * v[c]])]

\* matrix product of two matrices given as sequences of rows
MatMul(a, b) ==
    [r \in DOMAIN a |->
        [c \in DOMAIN b[1] |-> SeqSum([k \in DOMAIN b |-> a[r][k] * b[k][c]])]]

-----------------------------------------------------------------------------
(* Pure functions of ArUcoTriangulator *)

\* the limit the code compares the mean error with (200.0 pixels)
HardErrorLimit == 200

\* the constant 0.1 (world units) of the outlier filter, in ticks
OutlierMargin == 4

\* the projection matrix with t = +R * position
create_projection_matrix_plus_t(camera_matrix, rotation, position) ==
    LET translation == MatVec(rotation, position)
        rt_matrix == [r \in 1..3 |-> rotation[r] \o <<translation[r]>>]
    IN MatMul(camera_matrix, rt_matrix)

\* P = K [R | t] with t = -R * position
create_projection_matrix(camera_matrix, rotation, position) ==
    LET translation == MatVec(rotation, Vec3Scale(-1, position))
        rt_matrix == [r \in 1..3 |-> rotation[r] \o <<translation[r]>>]
    IN MatMul(camera_matrix, rt_matrix)

\* the conversion without the test of the fourth coordinate
convert_homogeneous_unchecked(point_4d) ==
    [finite |-> TRUE,
     v |-> IF point_4d[4] = 0
           THEN <<point_4d[1], point_4d[2], point_4d[3]>>
           ELSE <<point_4d[1] \div point_4d[4],
                  point_4d[2] \div point_4d[4],
                  point_4d[3] \div point_4d[4]>>]

\* a 3D point: finite with integer coordinates v, or (inf, inf, inf)
InfPoint == [finite |-> FALSE, v |-> <<0, 0, 0>>]

convert_homogeneous_to_3d(point_4d) ==
    IF point_4d[4] = 0
    THEN InfPoint
    ELSE [finite |-> TRUE,
          v |-> <<point_4d[1] \div point_4d[4],
                  point_4d[2] \div point_4d[4],
                  point_4d[3] \div point_4d[4]>>]

\* np.mean(points, axis=0) as the vector num / den, in lowest terms
MeanPoint(points) ==
    LET n == Len(points)
        sum == [k \in 1..3 |-> SeqSum([i \in 1..n |-> points[i][k]])]
        g == GCD(GCD(Abs(sum[1]), Abs(sum[2])), GCD(Abs(sum[3]), n))
    IN [num |-> <<sum[1] \div g, sum[2] \div g, sum[3] \div g>>, den |-> n \div g]

\* the subsequence of s at the indices of the set keep, in order
RECURSIVE SelectIdx(_, _, _)
SelectIdx(s, keep, i) ==
    IF i > Len(s) THEN << >>
    ELSE (IF i \in keep THEN <<s[i]>> ELSE << >>) \o SelectIdx(s, keep, i + 1)

\* lines 145-146: coordinate-wise median and the distances to it
MedianPoint(points) ==
    [k \in 1..3 |-> Median([i \in DOMAIN points |-> points[i][k]])]

Distances(points) ==
    LET median_point == MedianPoint(points)
    IN [i \in DOMAIN points |-> Norm(Vec3Sub(points[i], median_point))]

\* the mask without the constant 0.1
ValidMaskNoMargin(distances) ==
    LET median_distance == Median(distances)
    IN {i \in DOMAIN distances : distances[i] <= median_distance * 2}

\* the mask of the candidates strictly closer than the median distance
ValidMaskBelowMedian(distances) ==
    LET median_distance == Median(distances)
    IN {i \in DOMAIN distances : distances[i] < median_distance}

\* line 150: distances <= median_distance * 2 + 0.1
ValidMask(distances) ==
    LET median_distance == Median(distances)
    IN {i \in DOMAIN distances : distances[i] <= median_distance * 2 + OutlierMargin}

\* no outlier filter: every candidate is kept
FilterOutliersNone(points) == points

\* lines 144-151: the outlier filter, applied to more than two points only
FilterOutliers(points) ==
    IF Len(points) > 2
    THEN SelectIdx(points, ValidMask(Distances(points)), 1)
    ELSE points

\* the error with a camera at depth 0 counted as an error of 0 pixels
reprojection_error_zero_at_depth_0(point_3d, camera_matrix, rotation, position, observed_2d) ==
    LET point_camera ==
            MatVec(rotation, Vec3Sub(point_3d.num, Vec3Scale(point_3d.den, position)))
        projected == MatVec(camera_matrix, point_camera)
        diff == <<projected[1] - observed_2d[1] * projected[3],
                  projected[2] - observed_2d[2] * projected[3]>>
    IN IF point_camera[3] = 0
       THEN [inf |-> FALSE, error |-> <<0, 1>>]
       ELSE [inf |-> FALSE, error |-> Rat(Norm(diff), Abs(projected[3]))]

\* lines 60-77; point_3d is the rational vector num / den
calculate_reprojection_error(point_3d, camera_matrix, rotation, position, observed_2d) ==
    LET point_camera ==
            MatVec(rotation, Vec3Sub(point_3d.num, Vec3Scale(point_3d.den, position)))
        projected == MatVec(camera_matrix, point_camera)
        diff == <<projected[1] - observed_2d[1] * projected[3],
                  projected[2] - observed_2d[2] * projected[3]>>
    IN IF point_camera[3] = 0
       THEN [inf |-> TRUE, error |-> <<0, 1>>]
       ELSE [inf |-> FALSE, error |-> Rat(Norm(diff), Abs(projected[3]))]

\* np.mean of a non-empty sequence of rationals
RMean(errors) == RMul(RSum(errors), <<1, Len(errors)>>)

\* line 195: avg_reprojection_error > 200.0
ErrorTooLarge(avg_reprojection_error, configured_limit) ==
    RLess(<<HardErrorLimit, 1>>, avg_reprojection_error)

\* the confidence without the cap of the camera factor
ConfidenceUncapped(n_cameras, avg_reprojection_error) ==
    LET camera_factor == Rat(n_cameras - 2, 5)
        ratio == RMul(avg_reprojection_error, <<1, 200>>)
        capped == IF RLeq(<<1, 1>>, ratio) THEN <<1, 1>> ELSE ratio
        error_factor == RAdd(<<1, 1>>, <<-capped[1], capped[2]>>)
    IN RMul(camera_factor, error_factor)

\* the confidence with the error scaled by 100 pixels instead of 200
ConfidenceScale100(n_cameras, avg_reprojection_error) ==
    LET camera_factor == IF n_cameras - 2 >= 5 THEN <<1, 1>> ELSE Rat(n_cameras - 2, 5)
        ratio == RMul(avg_reprojection_error, <<1, 100>>)
        capped == IF RLeq(<<1, 1>>, ratio) THEN <<1, 1>> ELSE ratio
        error_factor == RAdd(<<1, 1>>, <<-capped[1], capped[2]>>)
    IN RMul(camera_factor, error_factor)

\* the confidence with the error factor not subtracted from 1
ConfidenceErrorNotInverted(n_cameras, avg_reprojection_error) ==
    LET camera_factor == IF n_cameras - 2 >= 5 THEN <<1, 1>> ELSE Rat(n_cameras - 2, 5)
        ratio == RMul(avg_reprojection_error, <<1, 200>>)
        capped == IF RLeq(<<1, 1>>, ratio) THEN <<1, 1>> ELSE ratio
    IN RMul(camera_factor, capped)

\* the confidence with the camera count taken one higher
ConfidenceOneCameraMore(n_cameras, avg_reprojection_error) ==
    LET camera_factor == IF n_cameras - 1 >= 5 THEN <<1, 1>> ELSE Rat(n_cameras - 1, 5)
        ratio == RMul(avg_reprojection_error, <<1, 200>>)
        capped == IF RLeq(<<1, 1>>, ratio) THEN <<1, 1>> ELSE ratio
        error_factor == RAdd(<<1, 1>>, <<-capped[1], capped[2]>>)
    IN RMul(camera_factor, error_factor)

\* line 200: min(1.0, (n - 2) / 5) * (1.0 - min(1.0, avg / 200.0))
Confidence(n_cameras, avg_reprojection_error) ==
    LET camera_factor == IF n_cameras - 2 >= 5 THEN <<1, 1>> ELSE Rat(n_cameras - 2, 5)
        ratio == RMul(avg_reprojection_error, <<1, 200>>)
        capped == IF RLeq(<<1, 1>>, ratio) THEN <<1, 1>> ELSE ratio
        error_factor == RAdd(<<1, 1>>, <<-capped[1], capped[2]>>)
    IN RMul(camera_factor, error_factor)

\* triangulation.py line 315
Quality(confidence) ==
    IF RLeq(<<7, 10>>, confidence) THEN "high"
    ELSE IF RLeq(<<5, 10>>, confidence) THEN "medium"
    ELSE "low"

\* the label with 'high' only above 0.7
ExporterQualityStrict(confidence) ==
    IF RLess(<<7, 10>>, confidence) THEN "high"
    ELSE IF RLeq(<<5, 10>>, confidence) THEN "medium"
    ELSE "low"

\* camera_exporter.py line 204
ExporterQuality(confidence) ==
    IF RLeq(<<7, 10>>, confidence) THEN "high"
    ELSE IF RLeq(<<5, 10>>, confidence) THEN "medium"
    ELSE "low"

-----------------------------------------------------------------------------
(* Scenes: the camera tables and detections the model enumerates *)

\* largest number of cameras of the detection tables of Init
MaxCameras == 3

MarkerIds == {1, 2}

\* Camera c stands at (8(c-1), 0, -40) ticks and looks along +z; its intrinsic
\* matrix has fx = fy = 40 and the principal point (18, 18): a point (x, 0, 0)
\* projects to the pixel (x - 8(c-1) + 18, 18).
CameraData(c) ==
    [camera_matrix |-> <<<<40, 0, 18>>, <<0, 40, 18>>, <<0, 0, 1>>>>,
     rotation |-> <<<<1, 0, 0>>, <<0, 1, 0>>, <<0, 0, 1>>>>,
     position |-> <<8 * (c - 1), 0, -40>>]

\* the pixel where camera c sees the world origin, moved by offset pixels along u
CentreOf(c, offset) == <<18 - 8 * (c - 1) + offset, 18>>

\* results of cv2.triangulatePoints: a homogeneous point, or an exception
Homogeneous(x, w) == [raises |-> FALSE, points_4d |-> <<x * w, 0, 0, w>>]

Cv2Raises == [raises |-> TRUE, points_4d |-> <<0, 0, 0, 0>>]

CameraPairs(n) == {p \in (1..n) \X (1..n) : p[1] < p[2]}

\* every pair of the cameras 1..n may give any result of the set outcomes
AnyPair(n, outcomes) == [p \in CameraPairs(n) |-> outcomes]

\* detections of the cameras cams: camera c sees the markers seen[c], each at the
\* exact projection of the origin moved by offset[c][m] pixels
DetectionsOf(cams, seen, offset) ==
    [c \in cams |-> [m \in seen[c] |-> [center |-> CentreOf(c, offset[c][m])]]]

NoPosition == [num |-> <<0, 0, 0>>, den |-> 1]

NoExport == [metadata |-> [total_markers |-> 0, high_confidence_markers |-> 0],
             markers |-> << >>]

\* aruco_complete_addon.py lines 462-472: the results before any stage has run
NoResults == [success |-> FALSE, markers_triangulated |-> 0,
              high_quality_markers |-> 0, errors |-> << >>]

\* main.py lines 83-89: pipeline_stats after __init__ (the two stage lists)
NoStats == [stages_completed |-> << >>, stages_failed |-> << >>]

\* the state before triangulate_markers is called on the given inputs
InitWith(cameras, detections, minc, maxerr, outcomes) ==
    /\ pipeline_stats = NoStats
    /\ stage_calls = << >>
    /\ xmp_files = << >>
    /\ xmp_cameras = << >>
    /\ image_markers = << >>
    /\ results = NoResults
    /\ opencv_cameras = cameras
    /\ marker_detections = detections
    /\ min_cameras = minc
    /\ max_reprojection_error = maxerr
    /\ cv2_outcomes = outcomes
    /\ cv2_memo = {}
    /\ pc = "start"
    /\ markers_observations = << >>
    /\ marker_order = << >>
    /\ next_marker = 1
    /\ marker_id = 0
    /\ camera_ids = << >>
    /\ pair = <<1, 2>>
    /\ triangulated_points = << >>
    /\ final_3d_position = NoPosition
    /\ triangulated_markers = << >>
    /\ blender_data = NoExport
    /\ exporter_data = NoExport
    /\ run = 1
    /\ first_output = << >>

\* the markers seen by each of the cameras 1..n when marker m is seen by the
\* cameras 1..count[m]
SeenByFirst(n, count) == [c \in 1..n |-> {m \in DOMAIN count : c <= count[m]}]

CameraTable(cams) == [c \in cams |-> CameraData(c)]

\* Gate scenes: any detection pattern of up to MaxCameras cameras and two
\* markers, noise-free centres, the camera table with or without its last
\* camera, every min_cameras up to MaxCameras; every pair triangulates to the
\* origin.
Init ==
    \E n \in 1..MaxCameras, missing \in BOOLEAN, minc \in 1..MaxCameras :
    \E seen \in [1..n -> SUBSET MarkerIds] :
        InitWith(CameraTable(IF missing THEN 1..(n - 1) ELSE 1..n),
                 DetectionsOf(1..n, seen, [c \in 1..n |-> [m \in MarkerIds |-> 0]]),
                 minc, 2,
                 AnyPair(n, {Homogeneous(0, 1)}))

\* Scoring scenes: marker 1 seen by the first n1 cameras, marker 2 by the first
\* n2 (not at all when n2 = 0); every pair triangulates to the origin; the
\* centres of marker 1 are e1 pixels off (in every camera, or in camera 1
\* only), those of marker 2 are e2 pixels off.
ScoreOffsets == {0, 60, 100, 140, 200, 240}

InitScore ==
    \E n1 \in {1, 2, 3, 4, 7, 8}, n2 \in {0, 3, 7}, e1 \in ScoreOffsets,
       e2 \in {0, 100}, uniform \in BOOLEAN, minc \in {1, 3}, maxerr \in {2, 200} :
        LET n == Max(n1, n2)
            count == IF n2 = 0 THEN (1 :> n1) ELSE (1 :> n1) @@ (2 :> n2)
            offset == [c \in 1..n |->
                          (1 :> (IF uniform \/ c = 1 THEN e1 ELSE 0)) @@ (2 :> e2)]
        IN InitWith(CameraTable(1..n),
                    DetectionsOf(1..n, SeenByFirst(n, count), offset),
                    minc, maxerr,
                    AnyPair(n, {Homogeneous(0, 1)}))

\* Aggregation scenes: one marker seen by n cameras, noise-free centres.  With
\* up to four cameras the pairs triangulate to points on the x axis at 0, 0.1,
\* 0.2 or 100 world units (0, 4, 8, 4000 ticks), to a point at infinity, or
\* raise.  With five cameras they triangulate to 0 or 0.1, and the pair of
\* cameras 1 and 2 possibly to 100.
InitAgg ==
    \E n \in 2..5 :
        InitWith(CameraTable(1..n),
                 DetectionsOf(1..n, SeenByFirst(n, (1 :> n)),
                              [c \in 1..n |-> [m \in MarkerIds |-> 0]]),
                 2, 200,
                 CASE n <= 3 -> AnyPair(n, {Homogeneous(0, 1), Homogeneous(4, 1),
                                            Homogeneous(8, 2), Homogeneous(4000, 1),
                                            Homogeneous(0, 0), Cv2Raises})
                   [] n = 4 -> AnyPair(n, {Homogeneous(0, 1), Homogeneous(8, 2),
                                           Homogeneous(4000, 1), Homogeneous(0, 0)})
                   [] OTHER -> [p \in CameraPairs(n) |->
                                   {Homogeneous(0, 1), Homogeneous(4, 1)} \cup
                                   (IF p = <<1, 2>> THEN {Homogeneous(4000, 1)} ELSE {})])

\* Repeated-call scenes: three cameras; marker 1 seen by all of them with
\* noise-free centres, marker 2 by the first n2 with centres 8 pixels off; the
\* pairs triangulate to 0 or 0.2 world units or to a point at infinity.
InitTwo ==
    \E n2 \in 0..3, minc \in {2, 3} :
        InitWith(CameraTable(1..3),
                 DetectionsOf(1..3, SeenByFirst(3, (1 :> 3) @@ (2 :> n2)),
                              [c \in 1..3 |-> (1 :> 0) @@ (2 :> 8)]),
                 minc, 200,
                 AnyPair(3, {Homogeneous(0, 1), Homogeneous(8, 1), Homogeneous(0, 0)}))

\* camera parameters whose position has two coordinates only
BrokenCameraData(c) ==
    [camera_matrix |-> CameraData(c).camera_matrix,
     rotation |-> CameraData(c).rotation,
     position |-> <<8 * (c - 1), 0>>]

\* the markers seen by each camera of cams when marker m is seen by observers[m]
SeenBy(cams, observers) == [c \in cams |-> {m \in DOMAIN observers : c \in observers[m]}]

\* Isolation scenes: triangulate_markers called on a table of three cameras, the
\* third possibly with broken parameters; each of two markers is seen by
\* cameras {1,2}, {2,3} or {1,2,3}; the centres of marker 1 are exact or 240
\* pixels off; min_cameras is 2 or 3; every pair triangulates to the origin or
\* to a point at infinity.
InitIsolate ==
    \E broken \in BOOLEAN, e1 \in {0, 240}, minc \in {2, 3} :
    \E observers \in [MarkerIds -> {{1, 2}, {2, 3}, {1, 2, 3}}] :
        InitWith((3 :> (IF broken THEN BrokenCameraData(3) ELSE CameraData(3)))
                     @@ CameraTable(1..2),
                 DetectionsOf(1..3, SeenBy(1..3, observers),
                              [c \in 1..3 |-> (1 :> e1) @@ (2 :> 0)]),
                 minc, 200,
                 AnyPair(3, {Homogeneous(0, 1), Homogeneous(0, 0)}))

\* what the cameras see of the markers 1 and 3 in the scenes below: which
\* cameras see each of them; their centres are 8 pixels off
OtherPatterns ==
    {[m \in {1, 3} |-> IF m \in present THEN 1..3 ELSE {}] : present \in SUBSET {1, 3}}

OtherDetections(pattern) ==
    DetectionsOf(1..3, SeenBy(1..3, pattern), [c \in 1..3 |-> [m \in {1, 3} |-> 8]])

\* the detections of marker m alone
OnlyMarker(detections, m) ==
    [c \in DOMAIN detections |->
        [k \in DOMAIN detections[c] \cap {m} |-> detections[c][k]]]

\* the detection table made of two tables with different markers
MergedDetections(a, b) == [c \in DOMAIN a |-> a[c] @@ b[c]]

\* Independence scenes: three cameras; marker 2 is seen by cameras {1,2,3} or
\* {2,3} with centres that are exact, 8 or 240 pixels off; the markers 1 and 3
\* are seen by all cameras or by none; the pairs with camera 1 triangulate
\* to 0 or 0.2 world units, the pair of cameras 2 and 3 to 0.
InitOthers ==
    \E cams2 \in {{1, 2, 3}, {2, 3}}, e2 \in {0, 8, 240}, minc \in {2, 3},
       pattern \in OtherPatterns :
        InitWith(CameraTable(1..3),
                 MergedDetections(
                     DetectionsOf(1..3, SeenBy(1..3, (2 :> cams2)),
                                  [c \in 1..3 |-> (2 :> e2)]),
                     OtherDetections(pattern)),
                 minc, 200,
                 [p \in CameraPairs(3) |->
                     IF p[1] = 1 THEN {Homogeneous(0, 1), Homogeneous(8, 1)}
                                 ELSE {Homogeneous(0, 1)}])

\* a camera at (40, 0, 0) ticks that looks along -x, with the intrinsic matrix
\* of the others
SideCameraData ==
    [camera_matrix |-> CameraData(1).camera_matrix,
     rotation |-> <<<<0, 0, 1>>, <<0, 1, 0>>, <<-1, 0, 0>>>>,
     position |-> <<40, 0, 0>>]

\* the pixel of the world point X in a camera: K R (X - C), dehomogenised
\* (lines 66-73)
project_point(cam_data, X) ==
    LET projected == MatVec(cam_data.camera_matrix,
                            MatVec(cam_data.rotation, Vec3Sub(X, cam_data.position)))
    IN <<projected[1] \div projected[3], projected[2] \div projected[3]>>

\* the projection matrix P maps the homogeneous point to the pixel
ProjectsTo(P, point_4d, pixel) ==
    LET projected == MatVec(P, point_4d)
    IN /\ projected[3] # 0
       /\ projected[1] = pixel[1] * projected[3]
       /\ projected[2] = pixel[2] * projected[3]

\* cv2.triangulatePoints on two pixels that are projections of one point: the
\* homogeneous points, in any scale of the set scales, that both projection
\* matrices map to their pixel
ExactTriangulations(P1, P2, p1, p2, scales) ==
    {h \in {Homogeneous(x, w) : x \in {-8, 0, 8, 16}, w \in scales} :
        ProjectsTo(P1, h.points_4d, p1) /\ ProjectsTo(P2, h.points_4d, p2)}

\* Round-trip scenes: the cameras 1, 2, 3 and the side camera 4; one marker at
\* the world point (x, 0, 0), x = -0.2, 0 or 0.2 world units, seen by three or
\* four of the cameras, each at the exact projection of the point; min_cameras
\* is 3; every pair triangulates to a homogeneous point, of scale 1 or -2,
\* that its two projection matrices map to the two centres.
InitRoundTrip ==
    \E x \in {-8, 0, 8}, cams \in {{1, 2, 3}, {1, 2, 4}, {1, 3, 4}, {1, 2, 3, 4}} :
        LET table == (4 :> SideCameraData) @@ CameraTable(1..3)
            centre(c) == project_point(table[c], <<x, 0, 0>>)
            P(c) == create_projection_matrix(table[c].camera_matrix,
                                             table[c].rotation, table[c].position)
        IN InitWith(table,
                    [c \in cams |-> (1 :> [center |-> centre(c)])],
                    3, 200,
                    [p \in {q \in cams \X cams : q[1] < q[2]} |->
                        ExactTriangulations(P(p[1]), P(p[2]), centre(p[1]),
                                            centre(p[2]), {1, -2})])

\* a second camera that looks along -x from the plane x = 40 ticks
SecondSideCameraData ==
    [camera_matrix |-> CameraData(1).camera_matrix,
     rotation |-> SideCameraData.rotation,
     position |-> <<40, 0, -40>>]

\* Depth scenes: the cameras 1, 2, 3 and the side cameras 4 and 5, which have
\* the points of the plane x = 1 world unit at depth 0 and the points beyond it
\* behind them.  Marker 1 is seen by some of the cameras, by the side cameras
\* at the exact projection of the origin, by the others at that projection or
\* 40 pixels off; marker 2 is seen by cameras 1 and 2 at the exact projection
\* of the origin; min_cameras is 1, 2 or 3; every pair triangulates to the
\* point at 0, 1 or 2 world units on the x axis.
InitDepth ==
    \E cams \in {{1, 2, 3}, {1, 2, 4}, {1, 4, 5}, {1, 4}, {4, 5}, {4}}, e \in {0, 40},
       minc \in 1..3 :
        LET table == (4 :> SideCameraData) @@ (5 :> SecondSideCameraData)
                         @@ CameraTable(1..3)
            centre(c) == project_point(table[c], <<0, 0, 0>>)
            seen(c) == (IF c \in cams THEN {1} ELSE {}) \cup (IF c <= 2 THEN {2} ELSE {})
        IN InitWith(table,
                    [c \in cams \cup {1, 2} |->
                        [m \in seen(c) |->
                            [center |-> IF c <= 3 /\ m = 1
                                        THEN <<centre(c)[1] + e, centre(c)[2]>>
                                        ELSE centre(c)]]],
                    minc, 200,
                    [p \in CameraPairs(5) |->
                        {Homogeneous(0, 1), Homogeneous(40, 1), Homogeneous(80, 1)}])

\* Comparison scenes: three cameras; marker 1 is seen by all of them at the
\* exact projection of the origin, marker 2 by the first n2 of them 8 pixels
\* off; min_cameras is 2 or 3 and the error threshold 200 pixels; the pairs
\* triangulate to 0 or 1 world unit on the x axis or to a point at infinity.
InitEmbedded ==
    \E n2 \in 0..3, minc \in {2, 3} :
        InitWith(CameraTable(1..3),
                 DetectionsOf(1..3, SeenByFirst(3, (1 :> 3) @@ (2 :> n2)),
                              [c \in 1..3 |-> (1 :> 0) @@ (2 :> 8)]),
                 minc, 200,
                 AnyPair(3, {Homogeneous(0, 1), Homogeneous(40, 1), Homogeneous(0, 0)}))

-----------------------------------------------------------------------------
(* triangulate_all_markers *)

\* the observations of marker m by every camera, of the table or not
ObservationsOfEveryCamera(m) ==
    [c \in {c \in DOMAIN marker_detections : m \in DOMAIN marker_detections[c]} |->
        [center |-> marker_detections[c][m].center,
         camera_data |-> IF c \in DOMAIN opencv_cameras THEN opencv_cameras[c]
                                                        ELSE CameraData(c)]]

\* lines 218-233: the observations of marker m, by camera of the table
ObservationsOf(m) ==
    [c \in {c \in DOMAIN marker_detections :
                c \in DOMAIN opencv_cameras /\ m \in DOMAIN marker_detections[c]} |->
        [center |-> marker_detections[c][m].center, camera_data |-> opencv_cameras[c]]]

\* an order in which a marker appears once for every camera that sees it
RECURSIVE InsertionOrderRepeating(_, _)
InsertionOrderRepeating(cams, sofar) ==
    IF cams = << >> THEN sofar
    ELSE LET c == Head(cams)
             new == IF c \in DOMAIN opencv_cameras
                    THEN DOMAIN marker_detections[c]
                    ELSE {}
         IN InsertionOrderRepeating(Tail(cams), sofar \o SortedSeq(new))

\* the markers in the order lines 218-227 insert them: cameras ascending, the
\* markers of a camera ascending, each marker at its first appearance
RECURSIVE InsertionOrder(_, _)
InsertionOrder(cams, sofar) ==
    IF cams = << >> THEN sofar
    ELSE LET c == Head(cams)
             new == IF c \in DOMAIN opencv_cameras
                    THEN DOMAIN marker_detections[c] \ Range(sofar)
                    ELSE {}
         IN InsertionOrder(Tail(cams), sofar \o SortedSeq(new))

\* lines 215-242
Group ==
    /\ pc = "start"
    /\ marker_order' = InsertionOrder(SortedSeq(DOMAIN marker_detections), << >>)
    /\ markers_observations' =
           [m \in Range(marker_order') |-> ObservationsOf(m)]
    /\ triangulated_markers' = << >>
    /\ next_marker' = 1
    /\ pc' = "loop"
    /\ UNCHANGED <<pipeline_stats, stage_calls, xmp_files, xmp_cameras, image_markers, results,
                   opencv_cameras, marker_detections, min_cameras,
                   max_reprojection_error, cv2_outcomes, cv2_memo, marker_id,
                   camera_ids, pair, triangulated_points, final_3d_position,
                   blender_data, exporter_data, run, first_output>>

\* a candidate list that lives on from one marker to the next
LeftoverPoints(previous) == previous

\* the candidate list _triangulate_marker_robust starts from (line 89)
FreshPoints(previous) == << >>

\* the pair after (i, j), jumping over a row when row i is finished
NextPairSkipsRow(i, j, n_cameras) == IF j < n_cameras THEN <<i, j + 1>> ELSE <<i + 2, i + 3>>

\* the pair the loops of lines 107-108 visit first, and the pair after <<i, j>>
FirstPair == <<1, 2>>

NextPair(i, j, n_cameras) == IF j < n_cameras THEN <<i, j + 1>> ELSE <<i + 1, i + 2>>

\* the gate, one camera too lenient
TooFewCamerasOffByOne(n_cameras, minimum) == n_cameras < minimum - 1

\* line 247 (and again line 85): n_cameras < self.min_cameras
TooFewCameras(n_cameras, minimum) == n_cameras < minimum

\* lines 97-103 with 38-42: position.reshape(3, 1), rotation @ ..., np.hstack and
\* camera_matrix @ ... raise ValueError unless the shapes are (3,), 3x3 and 3x3
ProjectionMatrixRaises(cam_data) ==
    \/ Len(cam_data.position) # 3
    \/ Len(cam_data.rotation) # 3
    \/ \E r \in DOMAIN cam_data.rotation : Len(cam_data.rotation[r]) # 3
    \/ \E r \in DOMAIN cam_data.camera_matrix : Len(cam_data.camera_matrix[r]) # 3

\* an exception of a marker's processing that leaves triangulate_all_markers
ExceptionEscapes(loop_position) == "crashed"

\* lines 257-259: the exception is caught and the marker loop goes on
ExceptionCaught(loop_position) == loop_position

\* camera parameters whose position array was negated in place
CameraDataNegated(cam_data) ==
    [cam_data EXCEPT !.position = [i \in DOMAIN @ |-> -@[i]]]

\* lines 94-104 and 38-42: the camera's entry of the table after its projection
\* matrix has been computed.  np.array(...) copies the three arrays, and
\* reshape, @ and np.hstack return new arrays, so the entry is as it was.
CameraDataAfterProjection(cam_data) == cam_data

\* lines 244-248 and 82-104: take the next marker; skip it below min_cameras;
\* an exception of lines 93-104 ends its processing
BeginMarker ==
    /\ pc = "loop"
    /\ next_marker <= Len(marker_order)
    /\ LET m == marker_order[next_marker]
           observations == markers_observations[m]
           n_cameras == Cardinality(DOMAIN observations)
       IN /\ next_marker' = next_marker + 1
          /\ IF TooFewCameras(n_cameras, min_cameras)
             THEN /\ pc' = "loop"
                  /\ UNCHANGED <<opencv_cameras, marker_id, camera_ids, pair,
                                 triangulated_points>>
             ELSE /\ marker_id' = m
                  /\ opencv_cameras' =
                         [c \in DOMAIN opencv_cameras |->
                             IF c \in DOMAIN observations
                             THEN CameraDataAfterProjection(opencv_cameras[c])
                             ELSE opencv_cameras[c]]
                  /\ camera_ids' = SortedSeq(DOMAIN observations)
                  /\ triangulated_points' = FreshPoints(triangulated_points)
                  /\ IF \E c \in DOMAIN observations :
                            ProjectionMatrixRaises(observations[c].camera_data)
                     THEN /\ pc' = ExceptionCaught("loop")
                          /\ UNCHANGED pair
                     ELSE /\ pair' = FirstPair
                          /\ pc' = IF n_cameras >= 2 THEN "pairs" ELSE "aggregate"
    /\ UNCHANGED <<pipeline_stats, stage_calls, xmp_files, xmp_cameras, image_markers, results,
                   marker_detections, min_cameras,
                   max_reprojection_error, cv2_outcomes, cv2_memo,
                   markers_observations, marker_order, final_3d_position,
                   triangulated_markers, blender_data, exporter_data, run,
                   first_output>>

\* what identifies one call of cv2.triangulatePoints (lines 118-122): the two
\* cameras, whose projection matrices it gets, and the two pixel centres
PairArguments(observations, cam1_id, cam2_id) ==
    <<cam1_id, cam2_id, observations[cam1_id].center, observations[cam2_id].center>>

\* lines 107-134: one pair of the pair loop.  cv2.triangulatePoints is a
\* function of its arguments: a call with arguments seen before gives the
\* result it gave then, a new call any result cv2_outcomes lists for the pair.
TriangulatePair ==
    /\ pc = "pairs"
    /\ LET observations == markers_observations[marker_id]
           n_cameras == Len(camera_ids)
           args == PairArguments(observations, camera_ids[pair[1]], camera_ids[pair[2]])
           known == {e \in cv2_memo : e[1] = args}
       IN /\ \E outcome \in (IF known = {} THEN cv2_outcomes[<<args[1], args[2]>>]
                                             ELSE {e[2] : e \in known}) :
                /\ cv2_memo' = cv2_memo \cup {<<args, outcome>>}
                /\ LET point_3d == convert_homogeneous_to_3d(outcome.points_4d)
                   IN triangulated_points' =
                          IF ~outcome.raises /\ point_3d.finite
                          THEN Append(triangulated_points, point_3d.v)
                          ELSE triangulated_points
          /\ pair' = NextPair(pair[1], pair[2], n_cameras)
          /\ pc' = IF pair'[2] <= n_cameras THEN "pairs" ELSE "aggregate"
    /\ UNCHANGED <<pipeline_stats, stage_calls, xmp_files, xmp_cameras, image_markers, results,
                   opencv_cameras, marker_detections, min_cameras,
                   max_reprojection_error, cv2_outcomes, markers_observations,
                   marker_order, next_marker, marker_id, camera_ids,
                   final_3d_position, triangulated_markers, blender_data,
                   exporter_data, run, first_output>>

\* lines 136-160: no candidate, or the filtered candidates and their mean
Aggregate ==
    /\ pc = "aggregate"
    /\ IF triangulated_points = << >>
       THEN /\ pc' = "loop"
            /\ UNCHANGED <<triangulated_points, final_3d_position>>
       ELSE LET kept == FilterOutliers(triangulated_points)
            IN /\ triangulated_points' = kept
               /\ IF Len(kept) = 0
                  THEN /\ pc' = "loop"
                       /\ UNCHANGED final_3d_position
                  ELSE /\ final_3d_position' = MeanPoint(kept)
                       /\ pc' = "score"
    /\ UNCHANGED <<pipeline_stats, stage_calls, xmp_files, xmp_cameras, image_markers, results,
                   opencv_cameras, marker_detections, min_cameras,
                   max_reprojection_error, cv2_outcomes, cv2_memo,
                   markers_observations, marker_order, next_marker, marker_id,
                   camera_ids, pair, triangulated_markers, blender_data,
                   exporter_data, run, first_output>>

\* lines 165-185: the errors of the cameras whose error is not inf, in order
ReprojectionErrors(observations, cams, position) ==
    LET err(c) == calculate_reprojection_error(position,
                      observations[c].camera_data.camera_matrix,
                      observations[c].camera_data.rotation,
                      observations[c].camera_data.position,
                      observations[c].center)
        valid == {i \in DOMAIN cams : ~err(cams[i]).inf}
    IN SelectIdx([i \in DOMAIN cams |-> err(cams[i]).error], valid, 1)

\* the result with observations_count the number of cameras that were scored
MarkerTriangulationCountingScored(m, position, n_cameras, avg_reprojection_error, cams) ==
    [marker_id |-> m,
     position_3d |-> position,
     observations_count |->
         Len(ReprojectionErrors(markers_observations[m], cams, position)),
     reprojection_error |-> avg_reprojection_error,
     triangulation_confidence |-> Confidence(n_cameras, avg_reprojection_error),
     camera_ids |-> cams]

\* lines 202-209
MarkerTriangulation(m, position, n_cameras, avg_reprojection_error, cams) ==
    [marker_id |-> m,
     position_3d |-> position,
     observations_count |-> n_cameras,
     reprojection_error |-> avg_reprojection_error,
     triangulation_confidence |-> Confidence(n_cameras, avg_reprojection_error),
     camera_ids |-> cams]

\* lines 162-209 and 254-255: score the consensus position, emit or drop
Score ==
    /\ pc = "score"
    /\ LET observations == markers_observations[marker_id]
           n_cameras == Len(camera_ids)
           reprojection_errors ==
               ReprojectionErrors(observations, camera_ids, final_3d_position)
       IN IF reprojection_errors = << >>
          THEN UNCHANGED triangulated_markers
          ELSE LET avg_reprojection_error == RMean(reprojection_errors)
               IN IF ErrorTooLarge(avg_reprojection_error, max_reprojection_error)
                  THEN UNCHANGED triangulated_markers
                  ELSE triangulated_markers' =
                           (marker_id :> MarkerTriangulation(marker_id,
                                final_3d_position, n_cameras,
                                avg_reprojection_error, camera_ids))
                           @@ triangulated_markers
    /\ pc' = "loop"
    /\ UNCHANGED <<pipeline_stats, stage_calls, xmp_files, xmp_cameras, image_markers, results,
                   opencv_cameras, marker_detections, min_cameras,
                   max_reprojection_error, cv2_outcomes, cv2_memo,
                   markers_observations, marker_order, next_marker, marker_id,
                   camera_ids, pair, triangulated_points, final_3d_position,
                   blender_data, exporter_data, run, first_output>>

\* line 261
Return ==
    /\ pc = "loop"
    /\ next_marker > Len(marker_order)
    /\ pc' = "done"
    /\ first_output' = IF run = 1 THEN triangulated_markers ELSE first_output
    /\ UNCHANGED <<pipeline_stats, stage_calls, xmp_files, xmp_cameras, image_markers, results,
                   opencv_cameras, marker_detections, min_cameras,
                   max_reprojection_error, cv2_outcomes, cv2_memo,
                   markers_observations, marker_order, next_marker, marker_id,
                   camera_ids, pair, triangulated_points, final_3d_position,
                   triangulated_markers, blender_data, exporter_data, run>>

\* lines 287-292, called a second time on the same tables and parameters: a
\* new triangulator and new locals, each assigned by the line that creates it
CallAgain ==
    /\ pc = "done"
    /\ run = 1
    /\ run' = 2
    /\ pc' = "start"
    /\ UNCHANGED <<pipeline_stats, stage_calls, xmp_files, xmp_cameras, image_markers, results,
                   opencv_cameras, marker_detections, min_cameras,
                   max_reprojection_error, cv2_outcomes, cv2_memo,
                   markers_observations, marker_order, next_marker, marker_id,
                   camera_ids, pair, triangulated_points, final_3d_position,
                   triangulated_markers, blender_data, exporter_data,
                   first_output>>

\* lines 287-292, called a second time on the same camera table with the same
\* observations of marker 2 and any observations of the other markers
CallWithOtherMarkers ==
    /\ pc = "done"
    /\ run = 1
    /\ \E pattern \in OtherPatterns :
           marker_detections' =
               MergedDetections(OnlyMarker(marker_detections, 2), OtherDetections(pattern))
    /\ run' = 2
    /\ pc' = "start"
    /\ UNCHANGED <<pipeline_stats, stage_calls, xmp_files, xmp_cameras, image_markers, results, opencv_cameras,
                   min_cameras, max_reprojection_error, cv2_outcomes, cv2_memo,
                   markers_observations, marker_order, next_marker, marker_id,
                   camera_ids, pair, triangulated_points, final_3d_position,
                   triangulated_markers, blender_data, exporter_data,
                   first_output>>

-----------------------------------------------------------------------------
(* EmbeddedTriangulator of aruco_complete_addon.py, called after the call of   *)
(* triangulate_markers on the same tables and thresholds.  Its positions of    *)
(* pc carry the prefix e_; cv2.triangulatePoints stays a function of its       *)
(* arguments across the two calls.                                             *)

\* aruco_complete_addon.py line 312, reached from the end of the first call
CallEmbedded ==
    /\ pc = "done"
    /\ run = 1
    /\ run' = 2
    /\ pc' = "e_start"
    /\ UNCHANGED <<pipeline_stats, stage_calls, xmp_files, xmp_cameras, image_markers, results,
                   opencv_cameras, marker_detections, min_cameras,
                   max_reprojection_error, cv2_outcomes, cv2_memo,
                   markers_observations, marker_order, next_marker, marker_id,
                   camera_ids, pair, triangulated_points, final_3d_position,
                   triangulated_markers, blender_data, exporter_data,
                   first_output>>

\* aruco_complete_addon.py lines 317-336
EmbeddedGroup ==
    /\ pc = "e_start"
    /\ marker_order' = InsertionOrder(SortedSeq(DOMAIN marker_detections), << >>)
    /\ markers_observations' =
           [m \in Range(marker_order') |-> ObservationsOf(m)]
    /\ triangulated_markers' = << >>
    /\ next_marker' = 1
    /\ pc' = "e_loop"
    /\ UNCHANGED <<pipeline_stats, stage_calls, xmp_files, xmp_cameras, image_markers, results,
                   opencv_cameras, marker_detections, min_cameras,
                   max_reprojection_error, cv2_outcomes, cv2_memo, marker_id,
                   camera_ids, pair, triangulated_points, final_3d_position,
                   blender_data, exporter_data, run, first_output>>

\* aruco_complete_addon.py lines 338-343 and 360-378: take the next marker;
\* skip it below min_cameras; an exception of lines 365-375 ends its processing
EmbeddedBeginMarker ==
    /\ pc = "e_loop"
    /\ next_marker <= Len(marker_order)
    /\ LET m == marker_order[next_marker]
           observations == markers_observations[m]
           n_cameras == Cardinality(DOMAIN observations)
       IN /\ next_marker' = next_marker + 1
          /\ IF n_cameras < min_cameras
             THEN /\ pc' = "e_loop"
                  /\ UNCHANGED <<marker_id, camera_ids, pair, triangulated_points>>
             ELSE /\ marker_id' = m
                  /\ camera_ids' = SortedSeq(DOMAIN observations)
                  /\ triangulated_points' = << >>
                  /\ IF \E c \in DOMAIN observations :
                            ProjectionMatrixRaises(observations[c].camera_data)
                     THEN /\ pc' = "e_loop"
                          /\ UNCHANGED pair
                     ELSE /\ pair' = FirstPair
                          /\ pc' = IF n_cameras >= 2 THEN "e_pairs" ELSE "e_score"
    /\ UNCHANGED <<pipeline_stats, stage_calls, xmp_files, xmp_cameras, image_markers, results,
                   opencv_cameras, marker_detections, min_cameras,
                   max_reprojection_error, cv2_outcomes, cv2_memo,
                   markers_observations, marker_order, final_3d_position,
                   triangulated_markers, blender_data, exporter_data, run,
                   first_output>>

\* aruco_complete_addon.py line 396: points_4d[:3] / points_4d[3]; numpy
\* divides by 0 without raising and gives inf or nan
embedded_point_3d(points_4d) ==
    IF points_4d[4] = 0
    THEN InfPoint
    ELSE [finite |-> TRUE,
          v |-> <<points_4d[1] \div points_4d[4],
                  points_4d[2] \div points_4d[4],
                  points_4d[3] \div points_4d[4]>>]

\* aruco_complete_addon.py lines 380-402: one pair of the pair loop
EmbeddedTriangulatePair ==
    /\ pc = "e_pairs"
    /\ LET observations == markers_observations[marker_id]
           n_cameras == Len(camera_ids)
           args == PairArguments(observations, camera_ids[pair[1]], camera_ids[pair[2]])
           known == {e \in cv2_memo : e[1] = args}
       IN /\ \E outcome \in (IF known = {} THEN cv2_outcomes[<<args[1], args[2]>>]
                                             ELSE {e[2] : e \in known}) :
                /\ cv2_memo' = cv2_memo \cup {<<args, outcome>>}
                /\ LET point_3d == embedded_point_3d(outcome.points_4d)
                   IN triangulated_points' =
                          IF ~outcome.raises /\ point_3d.finite
                          THEN Append(triangulated_points, point_3d.v)
                          ELSE triangulated_points
          /\ pair' = NextPair(pair[1], pair[2], n_cameras)
          /\ pc' = IF pair'[2] <= n_cameras THEN "e_pairs" ELSE "e_score"
    /\ UNCHANGED <<pipeline_stats, stage_calls, xmp_files, xmp_cameras, image_markers, results,
                   opencv_cameras, marker_detections, min_cameras,
                   max_reprojection_error, cv2_outcomes, markers_observations,
                   marker_order, next_marker, marker_id, camera_ids,
                   final_3d_position, triangulated_markers, blender_data,
                   exporter_data, run, first_output>>

\* aruco_complete_addon.py lines 404-448 and 346-348: the mean of all the
\* candidates, its errors in the cameras of depth not 0, the test against
\* self.max_reprojection_error, and the result
EmbeddedScore ==
    /\ pc = "e_score"
    /\ IF triangulated_points = << >>
       THEN UNCHANGED <<final_3d_position, triangulated_markers>>
       ELSE LET observations == markers_observations[marker_id]
                n_cameras == Len(camera_ids)
                position == MeanPoint(triangulated_points)
                reprojection_errors ==
                    ReprojectionErrors(observations, camera_ids, position)
            IN /\ final_3d_position' = position
               /\ IF reprojection_errors = << >>
                  THEN UNCHANGED triangulated_markers
                  ELSE LET avg_error == RMean(reprojection_errors)
                       IN IF RLess(<<max_reprojection_error, 1>>, avg_error)
                          THEN UNCHANGED triangulated_markers
                          ELSE triangulated_markers' =
                                   (marker_id :> MarkerTriangulation(marker_id,
                                        position, n_cameras, avg_error, camera_ids))
                                   @@ triangulated_markers
    /\ pc' = "e_loop"
    /\ UNCHANGED <<pipeline_stats, stage_calls, xmp_files, xmp_cameras, image_markers, results,
                   opencv_cameras, marker_detections, min_cameras,
                   max_reprojection_error, cv2_outcomes, cv2_memo,
                   markers_observations, marker_order, next_marker, marker_id,
                   camera_ids, pair, triangulated_points, blender_data,
                   exporter_data, run, first_output>>

\* aruco_complete_addon.py line 354
EmbeddedReturn ==
    /\ pc = "e_loop"
    /\ next_marker > Len(marker_order)
    /\ pc' = "e_done"
    /\ UNCHANGED <<pipeline_stats, stage_calls, xmp_files, xmp_cameras, image_markers, results,
                   opencv_cameras, marker_detections, min_cameras,
                   max_reprojection_error, cv2_outcomes, cv2_memo,
                   markers_observations, marker_order, next_marker, marker_id,
                   camera_ids, pair, triangulated_points, final_3d_position,
                   triangulated_markers, blender_data, exporter_data, run,
                   first_output>>

-----------------------------------------------------------------------------
(* The export functions.  Both read the output dictionary only; neither is     *)
(* called by the other, so they may run in either order once the run is done.  *)
(* Marker keys 'marker_<id>' are modelled by the id.                           *)

\* triangulation.py lines 295-318
prepare_blender_export(markers) ==
    [metadata |->
        [total_markers |-> Cardinality(DOMAIN markers),
         high_confidence_markers |->
            Cardinality({m \in DOMAIN markers :
                RLeq(<<7, 10>>, markers[m].triangulation_confidence)})],
     markers |->
        [m \in DOMAIN markers |->
            [id |-> m,
             position |-> markers[m].position_3d,
             confidence |-> markers[m].triangulation_confidence,
             quality |-> Quality(markers[m].triangulation_confidence)]]]

\* camera_exporter.py lines 199-216, 252-253 and 262: the marker part of the export
exporter_prepare_blender_export(markers) ==
    LET blender_markers ==
            [m \in DOMAIN markers |->
                [id |-> m,
                 position |-> markers[m].position_3d,
                 confidence |-> markers[m].triangulation_confidence,
                 quality |-> ExporterQuality(markers[m].triangulation_confidence),
                 reprojection_error |-> markers[m].reprojection_error,
                 observations_count |-> markers[m].observations_count]]
    IN [metadata |->
           [markers_total |-> Cardinality(DOMAIN markers),
            markers_high_quality |->
               Cardinality({m \in DOMAIN markers : blender_markers[m].quality = "high"})],
        markers |-> blender_markers]

PrepareBlenderExport ==
    /\ pc \in {"done", "exported_c"}
    /\ blender_data' = prepare_blender_export(triangulated_markers)
    /\ pc' = IF pc = "done" THEN "exported_t" ELSE "exported"
    /\ UNCHANGED <<pipeline_stats, stage_calls, xmp_files, xmp_cameras, image_markers, results,
                   opencv_cameras, marker_detections, min_cameras,
                   max_reprojection_error, cv2_outcomes, cv2_memo,
                   markers_observations, marker_order, next_marker, marker_id,
                   camera_ids, pair, triangulated_points, final_3d_position,
                   triangulated_markers, exporter_data, run, first_output>>

ExporterPrepareBlenderExport ==
    /\ pc \in {"done", "exported_t"}
    /\ exporter_data' = exporter_prepare_blender_export(triangulated_markers)
    /\ pc' = IF pc = "done" THEN "exported_c" ELSE "exported"
    /\ UNCHANGED <<pipeline_stats, stage_calls, xmp_files, xmp_cameras, image_markers, results,
                   opencv_cameras, marker_detections, min_cameras,
                   max_reprojection_error, cv2_outcomes, cv2_memo,
                   markers_observations, marker_order, next_marker, marker_id,
                   camera_ids, pair, triangulated_points, final_3d_position,
                   triangulated_markers, blender_data, run, first_output>>

-----------------------------------------------------------------------------
(* The stages before triangulation: SimpleXMPParser, XMPToOpenCVConverter and   *)
(* SimpleArUcoDetector.  A value read from an XMP file is a token: a number    *)
(* float() accepts, or text it rejects (an absent attribute is modelled as     *)
(* rejected text: both give the default).                                      *)

Float(v) == [is_float |-> TRUE, value |-> v]

NotAFloat == [is_float |-> FALSE, value |-> 0]

\* xmp_parser.py lines 104-111
get_float_attribute(token, default) == IF token.is_float THEN token.value ELSE default

\* xmp_parser.py lines 134-145; text is the sequence of tokens of the element,
\* empty when the element is absent
parse_position(text) ==
    IF text # << >> /\ (\A i \in DOMAIN text : text[i].is_float) /\ Len(text) = 3
    THEN [i \in 1..3 |-> text[i].value]
    ELSE <<0, 0, 0>>

\* xmp_parser.py lines 147-171
parse_rotation(text) ==
    IF text # << >> /\ (\A i \in DOMAIN text : text[i].is_float) /\ Len(text) = 9
    THEN [r \in 1..3 |-> [c \in 1..3 |-> text[3 * (r - 1) + c].value]]
    ELSE <<<<1, 0, 0>>, <<0, 1, 0>>, <<0, 0, 1>>>>

\* xmp_parser.py lines 225-258 (the distortion model, coordinates, calibration
\* prior and version of the files are the accepted ones)
validate_camera_data(focal_length, aspect_ratio) ==
    [is_valid |-> TRUE,
     warnings |-> (IF 10 <= focal_length /\ focal_length <= 200
                   THEN {} ELSE {"Unusual focal length"})
                  \cup (IF 1 <= 2 * aspect_ratio /\ aspect_ratio <= 2
                        THEN {} ELSE {"Unusual aspect ratio"})]

\* xmp_parser.py lines 35-46 and 97-102: parse_xmp_file returns None
ParseReturnsNone(file) == ~file.description

\* xmp_parser.py lines 49-95: the fields the later stages read
parse_xmp_file(file) ==
    LET focal_length == get_float_attribute(file.FocalLength35mm, 35)
        aspect_ratio == get_float_attribute(file.AspectRatio, 1)
    IN [focal_length |-> focal_length,
        principal_point_u |-> get_float_attribute(file.PrincipalPointU, 0),
        principal_point_v |-> get_float_attribute(file.PrincipalPointV, 0),
        aspect_ratio |-> aspect_ratio,
        position |-> parse_position(file.Position),
        rotation |-> parse_rotation(file.Rotation),
        validation |-> validate_camera_data(focal_length, aspect_ratio)]

\* xmp_parser.py lines 260-298: the records of the files that parse
load_all_cameras(files) ==
    [c \in {c \in DOMAIN files : ~ParseReturnsNone(files[c])} |-> parse_xmp_file(files[c])]

\* xmp_parser.py lines 285-298
LoadAllCameras ==
    /\ pc = "load"
    /\ xmp_cameras' = load_all_cameras(xmp_files)
    /\ pc' = "convert"
    /\ UNCHANGED <<pipeline_stats, stage_calls, xmp_files, image_markers, results, opencv_cameras,
                   marker_detections, min_cameras, max_reprojection_error,
                   cv2_outcomes, cv2_memo, markers_observations, marker_order,
                   next_marker, marker_id, camera_ids, pair, triangulated_points,
                   final_3d_position, triangulated_markers, blender_data,
                   exporter_data, run, first_output>>

\* xmp_to_opencv.py line 20: sensor_width_35mm = 36.0
SensorWidth35mm == 36

\* the image_size the cameras are converted for: 36 x 36 pixels, so that a
\* focal length of f mm becomes f pixels
ImageSize == <<36, 36>>

\* the focal lengths in pixels taken from the image height
FocalPixelsByHeight(xmp_data, image_size) ==
    LET fx_pixels == (xmp_data.focal_length * image_size[2]) \div SensorWidth35mm
    IN <<fx_pixels, fx_pixels * xmp_data.aspect_ratio>>

\* xmp_to_opencv.py lines 59-60
FocalPixels(xmp_data, image_size) ==
    LET fx_pixels == (xmp_data.focal_length * image_size[1]) \div SensorWidth35mm
    IN <<fx_pixels, fx_pixels * xmp_data.aspect_ratio>>

\* xmp_to_opencv.py lines 75-78 with 156 and 161-163: the divisions of
\* _validate_opencv_params raise ZeroDivisionError
ConvertRaises(xmp_data, image_size) ==
    LET f == FocalPixels(xmp_data, image_size)
    IN \/ Max(f[1], f[2]) = 0
       \/ image_size[1] = 0
       \/ image_size[2] = 0

\* xmp_to_opencv.py lines 48-100: the fields triangulation reads, and the
\* image size
convert_single_camera(xmp_data, image_size) ==
    LET f == FocalPixels(xmp_data, image_size)
        cx_pixels == image_size[1] \div 2
                        + (xmp_data.principal_point_u * image_size[1]) \div 2
        cy_pixels == image_size[2] \div 2
                        + (xmp_data.principal_point_v * image_size[2]) \div 2
    IN [camera_matrix |-> <<<<f[1], 0, cx_pixels>>, <<0, f[2], cy_pixels>>, <<0, 0, 1>>>>,
        image_size |-> image_size,
        rotation |-> xmp_data.rotation,
        position |-> xmp_data.position]

\* xmp_to_opencv.py lines 102-135: a camera whose conversion raises is left out
convert_all_cameras(cameras, image_size) ==
    [c \in {c \in DOMAIN cameras : ~ConvertRaises(cameras[c], image_size)} |->
        convert_single_camera(cameras[c], image_size)]

\* xmp_to_opencv.py lines 119-135
ConvertAllCameras ==
    /\ pc = "convert"
    /\ opencv_cameras' = convert_all_cameras(xmp_cameras, ImageSize)
    /\ pc' = "detect"
    /\ UNCHANGED <<pipeline_stats, stage_calls, xmp_files, xmp_cameras, image_markers, results,
                   marker_detections, min_cameras, max_reprojection_error,
                   cv2_outcomes, cv2_memo, markers_observations, marker_order,
                   next_marker, marker_id, camera_ids, pair, triangulated_points,
                   final_3d_position, triangulated_markers, blender_data,
                   exporter_data, run, first_output>>

\* the image sizes (width, height) of the conversion scenes
ImageSizes == {<<36, 36>>, <<36, 72>>, <<72, 36>>, <<72, 108>>}

\* xmp_to_opencv.py lines 102-135, called with any of the image sizes
ConvertAllCamerasOfAnySize ==
    /\ pc = "convert"
    /\ \E image_size \in ImageSizes :
           opencv_cameras' = convert_all_cameras(xmp_cameras, image_size)
    /\ pc' = "detect"
    /\ UNCHANGED <<pipeline_stats, stage_calls, xmp_files, xmp_cameras, image_markers, results,
                   marker_detections, min_cameras, max_reprojection_error,
                   cv2_outcomes, cv2_memo, markers_observations, marker_order,
                   next_marker, marker_id, camera_ids, pair, triangulated_points,
                   final_3d_position, triangulated_markers, blender_data,
                   exporter_data, run, first_output>>

\* aruco_detector.py line 26
MAX_VALID_MARKER_ID == 13

\* aruco_detector.py lines 274-323; found is the list of markers
\* detectMarkers returns, each with its id, its centre and the outcome of the
\* two geometric checks of lines 305 and 309
detect_markers_in_image(found) ==
    LET valid_indices == {i \in DOMAIN found : found[i].marker_id <= MAX_VALID_MARKER_ID}
        kept == {i \in valid_indices :
                    ~found[i].in_excluded_region /\ found[i].passes_validation}
        last(m) == CHOOSE i \in kept :
                       /\ found[i].marker_id = m
                       /\ \A j \in kept : found[j].marker_id = m => j <= i
    IN [m \in {found[i].marker_id : i \in kept} |-> [center |-> found[last(m)].center]]

\* aruco_detector.py lines 350-406: the detections of every image
detect_markers_in_directory(images) ==
    [c \in DOMAIN images |-> detect_markers_in_image(images[c])]

\* aruco_detector.py lines 391-406
DetectMarkersInDirectory ==
    /\ pc = "detect"
    /\ marker_detections' = detect_markers_in_directory(image_markers)
    /\ pc' = "start"
    /\ UNCHANGED <<pipeline_stats, stage_calls, xmp_files, xmp_cameras, image_markers, results, opencv_cameras,
                   min_cameras, max_reprojection_error,
                   cv2_outcomes, cv2_memo, markers_observations, marker_order,
                   next_marker, marker_id, camera_ids, pair, triangulated_points,
                   final_3d_position, triangulated_markers, blender_data,
                   exporter_data, run, first_output>>

\* aruco_complete_addon.py lines 546-549: the handler of every exception
\* raised inside process_full_pipeline
PipelineFailed(previous, error_msg) ==
    [previous EXCEPT !.errors = Append(@, error_msg)]

\* aruco_complete_addon.py lines 525-553: the end of process_full_pipeline,
\* given the dictionary that triangulate_markers returned
FinishPipeline ==
    /\ pc = "done"
    /\ results' =
           IF DOMAIN triangulated_markers = {}
           THEN PipelineFailed(results, "No markers triangulated")
           ELSE [results EXCEPT
                    !.markers_triangulated = Cardinality(DOMAIN triangulated_markers),
                    !.high_quality_markers =
                        Cardinality({m \in DOMAIN triangulated_markers :
                            RLeq(<<7, 10>>, triangulated_markers[m].triangulation_confidence)}),
                    !.success = TRUE]
    /\ pc' = "finished"
    /\ UNCHANGED <<pipeline_stats, stage_calls, xmp_files, xmp_cameras, image_markers, opencv_cameras,
                   marker_detections, min_cameras, max_reprojection_error,
                   cv2_outcomes, cv2_memo, markers_observations, marker_order,
                   next_marker, marker_id, camera_ids, pair, triangulated_points,
                   final_3d_position, triangulated_markers, blender_data,
                   exporter_data, run, first_output>>

\* the tokens of a sequence of numbers
Tokens(values) == [i \in DOMAIN values |-> Float(values[i])]

\* the XMP file of camera c: the camera of CameraData(c), a focal length of 40 mm
GoodXmpFile(c) ==
    [description |-> TRUE,
     FocalLength35mm |-> Float(40),
     AspectRatio |-> Float(1),
     PrincipalPointU |-> Float(0),
     PrincipalPointV |-> Float(0),
     Position |-> Tokens(CameraData(c).position),
     Rotation |-> Tokens(<<1, 0, 0, 0, 1, 0, 0, 0, 1>>)]

FileKinds == {"good", "focal_zero", "focal_negative", "short_position",
              "garbage_rotation", "no_description"}

\* that file with one defect
XmpFile(c, kind) ==
    CASE kind = "focal_zero" -> [GoodXmpFile(c) EXCEPT !.FocalLength35mm = Float(0)]
      [] kind = "focal_negative" -> [GoodXmpFile(c) EXCEPT !.FocalLength35mm = Float(-40)]
      [] kind = "short_position" ->
             [GoodXmpFile(c) EXCEPT !.Position = Tokens(<<8 * (c - 1), 0>>)]
      [] kind = "garbage_rotation" ->
             [GoodXmpFile(c) EXCEPT !.Rotation[9] = NotAFloat]
      [] kind = "no_description" -> [GoodXmpFile(c) EXCEPT !.description = FALSE]
      [] OTHER -> GoodXmpFile(c)

\* the ids detectMarkers may report in an image
RawIds == {0, 1, 14}

\* what detectMarkers finds in the image of camera c: the markers ids, in
\* ascending order, each at the exact projection of the world origin and
\* passing the geometric checks
FoundMarkers(c, ids) ==
    [i \in 1..Cardinality(ids) |->
        [marker_id |-> SortedSeq(ids)[i],
         center |-> CentreOf(c, 0),
         in_excluded_region |-> FALSE,
         passes_validation |-> TRUE]]

\* Pipeline scenes: a directory with the XMP files and images of three
\* cameras.  The files of cameras 1 and 2 are good, the file of camera 3 is of
\* any kind; detectMarkers reports any ids of RawIds, the same in the images
\* of cameras 1 and 2; min_cameras is 2 or 3; every pair triangulates to the
\* origin.
InitPipeline ==
    \E kind \in FileKinds, ids12 \in SUBSET RawIds, ids3 \in SUBSET RawIds,
       minc \in {2, 3} :
        /\ xmp_files = (3 :> XmpFile(3, kind)) @@ [c \in 1..2 |-> GoodXmpFile(c)]
        /\ image_markers = (3 :> FoundMarkers(3, ids3))
                               @@ [c \in 1..2 |-> FoundMarkers(c, ids12)]
        /\ pipeline_stats = NoStats
        /\ stage_calls = << >>
        /\ xmp_cameras = << >>
        /\ results = NoResults
        /\ opencv_cameras = << >>
        /\ marker_detections = << >>
        /\ min_cameras = minc
        /\ max_reprojection_error = 200
        /\ cv2_outcomes = AnyPair(3, {Homogeneous(0, 1)})
        /\ cv2_memo = {}
        /\ pc = "load"
        /\ markers_observations = << >>
        /\ marker_order = << >>
        /\ next_marker = 1
        /\ marker_id = 0
        /\ camera_ids = << >>
        /\ pair = <<1, 2>>
        /\ triangulated_points = << >>
        /\ final_3d_position = NoPosition
        /\ triangulated_markers = << >>
        /\ blender_data = NoExport
        /\ exporter_data = NoExport
        /\ run = 1
        /\ first_output = << >>

\* the XMP file of camera c with the given intrinsic attributes
XmpFileWith(c, focal, aspect, u, v) ==
    [GoodXmpFile(c) EXCEPT !.FocalLength35mm = Float(focal),
                           !.AspectRatio = Float(aspect),
                           !.PrincipalPointU = Float(u),
                           !.PrincipalPointV = Float(v)]

\* Conversion scenes: the XMP files of two cameras.  The file of camera 1 has
\* a focal length of -36, 0, 18, 36 or 72 mm, an aspect ratio of 1 or 2 and a
\* principal point of -1, 0 or 1 in each direction; the file of camera 2 has
\* the same attributes or those of the pipeline scenes.  There are no images.
InitConvert ==
    \E focal \in {-36, 0, 18, 36, 72}, aspect \in {1, 2}, u \in {-1, 0, 1},
       v \in {-1, 0, 1}, same \in BOOLEAN :
        /\ xmp_files = (1 :> XmpFileWith(1, focal, aspect, u, v))
                           @@ (2 :> IF same THEN XmpFileWith(2, focal, aspect, u, v)
                                            ELSE GoodXmpFile(2))
        /\ image_markers = << >>
        /\ pipeline_stats = NoStats
        /\ stage_calls = << >>
        /\ xmp_cameras = << >>
        /\ results = NoResults
        /\ opencv_cameras = << >>
        /\ marker_detections = << >>
        /\ min_cameras = 3
        /\ max_reprojection_error = 200
        /\ cv2_outcomes = << >>
        /\ cv2_memo = {}
        /\ pc = "load"
        /\ markers_observations = << >>
        /\ marker_order = << >>
        /\ next_marker = 1
        /\ marker_id = 0
        /\ camera_ids = << >>
        /\ pair = <<1, 2>>
        /\ triangulated_points = << >>
        /\ final_3d_position = NoPosition
        /\ triangulated_markers = << >>
        /\ blender_data = NoExport
        /\ exporter_data = NoExport
        /\ run = 1
        /\ first_output = << >>

-----------------------------------------------------------------------------
(* AutoCalibrationPipeline.run_detection_pipeline of main.py.  Its positions    *)
(* of pc are validate, stage_1 .. stage_4, finalize and the two return values.  *)
(* An exception inside a stage (writing a report or a JSON file, reading the    *)
(* directory) is an input of the stage's action.                                *)

\* the position after a step whose failure is ignored
AfterStepIgnoringFailure(returned, next_position) == next_position

\* main.py lines 561-575: `if not self.<step>(): return False`
AfterStep(returned, next_position) ==
    IF returned THEN next_position ELSE "returned_false"

\* the call of a method by run_detection_pipeline, added to the calls so far
Called(method, returned) ==
    Append(stage_calls, [method |-> method, returned |-> returned])

\* main.py lines 191 and 196 (255 and 260, 319 and 324, 429 and 434)
StageRecorded(stage_name, returned) ==
    IF returned
    THEN [pipeline_stats EXCEPT !.stages_completed = Append(@, stage_name)]
    ELSE [pipeline_stats EXCEPT !.stages_failed = Append(@, stage_name)]

\* main.py lines 104-158
ValidateInputData ==
    /\ pc = "validate"
    /\ LET common_ids == DOMAIN xmp_files \cap DOMAIN image_markers
           valid == /\ DOMAIN xmp_files # {}
                    /\ DOMAIN image_markers # {}
                    /\ Cardinality(common_ids) >= 3
       IN /\ stage_calls' = Called("validate_input_data", valid)
          /\ pc' = AfterStep(valid, "stage_1")
    /\ UNCHANGED <<pipeline_stats, xmp_files, xmp_cameras, image_markers,
                   results, opencv_cameras, marker_detections, min_cameras,
                   max_reprojection_error, cv2_outcomes, cv2_memo,
                   markers_observations, marker_order, next_marker,
                   marker_id, camera_ids, pair, triangulated_points,
                   final_3d_position, triangulated_markers, blender_data,
                   exporter_data, run, first_output>>

\* main.py lines 162-198
Stage1LoadCameras ==
    /\ pc = "stage_1"
    /\ \E raises \in BOOLEAN :
           LET loaded == load_all_cameras(xmp_files)
               returned == DOMAIN loaded # {} /\ ~raises
           IN /\ xmp_cameras' = loaded
              /\ pipeline_stats' = StageRecorded("load_cameras", returned)
              /\ stage_calls' = Called("stage_1_load_cameras", returned)
              /\ pc' = AfterStep(returned, "stage_2")
    /\ UNCHANGED <<xmp_files, image_markers, results, opencv_cameras,
                   marker_detections, min_cameras, max_reprojection_error,
                   cv2_outcomes, cv2_memo, markers_observations,
                   marker_order, next_marker, marker_id, camera_ids, pair,
                   triangulated_points, final_3d_position,
                   triangulated_markers, blender_data, exporter_data, run,
                   first_output>>

\* main.py lines 200-262
Stage2ConvertCameras ==
    /\ pc = "stage_2"
    /\ \E raises \in BOOLEAN :
           LET converted == convert_all_cameras(xmp_cameras, ImageSize)
               returned == DOMAIN converted # {} /\ ~raises
           IN /\ opencv_cameras' = converted
              /\ pipeline_stats' = StageRecorded("convert_cameras", returned)
              /\ stage_calls' = Called("stage_2_convert_cameras", returned)
              /\ pc' = AfterStep(returned, "stage_3")
    /\ UNCHANGED <<xmp_files, xmp_cameras, image_markers, results,
                   marker_detections, min_cameras, max_reprojection_error,
                   cv2_outcomes, cv2_memo, markers_observations,
                   marker_order, next_marker, marker_id, camera_ids, pair,
                   triangulated_points, final_3d_position,
                   triangulated_markers, blender_data, exporter_data, run,
                   first_output>>

\* main.py lines 264-326
Stage3DetectMarkers ==
    /\ pc = "stage_3"
    /\ \E raises \in BOOLEAN :
           LET detected == detect_markers_in_directory(image_markers)
               returned == DOMAIN detected # {} /\ ~raises
           IN /\ marker_detections' = IF raises THEN marker_detections ELSE detected
              /\ pipeline_stats' = StageRecorded("detect_markers", returned)
              /\ stage_calls' = Called("stage_3_detect_markers", returned)
              /\ pc' = AfterStep(returned, "stage_4")
    /\ UNCHANGED <<xmp_files, xmp_cameras, image_markers, results,
                   opencv_cameras, min_cameras, max_reprojection_error,
                   cv2_outcomes, cv2_memo, markers_observations,
                   marker_order, next_marker, marker_id, camera_ids, pair,
                   triangulated_points, final_3d_position,
                   triangulated_markers, blender_data, exporter_data, run,
                   first_output>>

\* main.py lines 328-436
Stage4PrepareTriangulationData ==
    /\ pc = "stage_4"
    /\ \E raises \in BOOLEAN :
           /\ pipeline_stats' = StageRecorded("prepare_triangulation", ~raises)
           /\ stage_calls' = Called("stage_4_prepare_triangulation_data", ~raises)
           /\ pc' = AfterStep(~raises, "finalize")
    /\ UNCHANGED <<xmp_files, xmp_cameras, image_markers, results,
                   opencv_cameras, marker_detections, min_cameras,
                   max_reprojection_error, cv2_outcomes, cv2_memo,
                   markers_observations, marker_order, next_marker,
                   marker_id, camera_ids, pair, triangulated_points,
                   final_3d_position, triangulated_markers, blender_data,
                   exporter_data, run, first_output>>

\* main.py lines 577-599: the final report and the return value; an exception
\* of create_final_report leads to the handler of line 591
FinalizePipeline ==
    /\ pc = "finalize"
    /\ \E raises \in BOOLEAN : pc' = IF raises THEN "returned_false" ELSE "returned_true"
    /\ UNCHANGED <<pipeline_stats, stage_calls, xmp_files, xmp_cameras,
                   image_markers, results, opencv_cameras, marker_detections,
                   min_cameras, max_reprojection_error, cv2_outcomes,
                   cv2_memo, markers_observations, marker_order, next_marker,
                   marker_id, camera_ids, pair, triangulated_points,
                   final_3d_position, triangulated_markers, blender_data,
                   exporter_data, run, first_output>>

\* Detection-pipeline scenes: a directory with the XMP files of three cameras,
\* each good, of focal length 0 or without rdf:Description, and the images of
\* all three or of the first two; every image shows marker 1.
InitDetection ==
    \E kinds \in [1..3 -> {"good", "focal_zero", "no_description"}],
       images \in {1..2, 1..3} :
        /\ pipeline_stats = NoStats
        /\ stage_calls = << >>
        /\ xmp_files = [c \in 1..3 |-> XmpFile(c, kinds[c])]
        /\ image_markers = [c \in images |-> FoundMarkers(c, {1})]
        /\ xmp_cameras = << >>
        /\ results = NoResults
        /\ opencv_cameras = << >>
        /\ marker_detections = << >>
        /\ min_cameras = 3
        /\ max_reprojection_error = 200
        /\ cv2_outcomes = << >>
        /\ cv2_memo = {}
        /\ pc = "validate"
        /\ markers_observations = << >>
        /\ marker_order = << >>
        /\ next_marker = 1
        /\ marker_id = 0
        /\ camera_ids = << >>
        /\ pair = <<1, 2>>
        /\ triangulated_points = << >>
        /\ final_3d_position = NoPosition
        /\ triangulated_markers = << >>
        /\ blender_data = NoExport
        /\ exporter_data = NoExport
        /\ run = 1
        /\ first_output = << >>

-----------------------------------------------------------------------------
(* Specifications *)

Next ==
    \/ Group
    \/ BeginMarker
    \/ TriangulatePair
    \/ Aggregate
    \/ Score
    \/ Return
    \/ PrepareBlenderExport
    \/ ExporterPrepareBlenderExport

\* one call of triangulate_markers alone
NextRun ==
    \/ Group
    \/ BeginMarker
    \/ TriangulatePair
    \/ Aggregate
    \/ Score
    \/ Return

\* one call of triangulate_markers on a gate scene, then the exports
Spec == Init /\ [][Next]_vars

\* the same on a scoring scene
SpecScore == InitScore /\ [][Next]_vars

\* two calls of triangulate_markers in a row on the same inputs
NextTwo ==
    \/ Group
    \/ BeginMarker
    \/ TriangulatePair
    \/ Aggregate
    \/ Score
    \/ Return
    \/ CallAgain

SpecTwo == InitTwo /\ [][NextTwo]_vars

\* one call on an aggregation scene
SpecAgg == InitAgg /\ [][NextRun]_vars

\* one call on an isolation scene
SpecIsolate == InitIsolate /\ [][NextRun]_vars

\* one call on a round-trip scene
SpecRoundTrip == InitRoundTrip /\ [][NextRun]_vars

\* one call on a depth scene
SpecDepth == InitDepth /\ [][NextRun]_vars

\* two calls of triangulate_markers that differ in the other markers only
NextOthers ==
    \/ Group
    \/ BeginMarker
    \/ TriangulatePair
    \/ Aggregate
    \/ Score
    \/ Return
    \/ CallWithOtherMarkers

SpecOthers == InitOthers /\ [][NextOthers]_vars

\* a call of triangulate_markers, then a call of
\* EmbeddedTriangulator.triangulate_markers on the same tables
NextEmbedded ==
    \/ Group
    \/ BeginMarker
    \/ TriangulatePair
    \/ Aggregate
    \/ Score
    \/ Return
    \/ CallEmbedded
    \/ EmbeddedGroup
    \/ EmbeddedBeginMarker
    \/ EmbeddedTriangulatePair
    \/ EmbeddedScore
    \/ EmbeddedReturn

SpecEmbedded == InitEmbedded /\ [][NextEmbedded]_vars

\* one call of run_detection_pipeline
NextDetection ==
    \/ ValidateInputData
    \/ Stage1LoadCameras
    \/ Stage2ConvertCameras
    \/ Stage3DetectMarkers
    \/ Stage4PrepareTriangulationData
    \/ FinalizePipeline

SpecDetection == InitDetection /\ [][NextDetection]_vars

\* loading and conversion
NextConvert ==
    \/ LoadAllCameras
    \/ ConvertAllCamerasOfAnySize

SpecConvert == InitConvert /\ [][NextConvert]_vars

\* loading, conversion and detection, one call of triangulate_markers on their
\* outputs, and the end of the pipeline
NextPipeline ==
    \/ LoadAllCameras
    \/ ConvertAllCameras
    \/ DetectMarkersInDirectory
    \/ Group
    \/ BeginMarker
    \/ TriangulatePair
    \/ Aggregate
    \/ Score
    \/ Return
    \/ FinishPipeline

SpecPipeline == InitPipeline /\ [][NextPipeline]_vars

-----------------------------------------------------------------------------
(* Properties *)

\* the cameras whose detections contain marker m
ObservingCameras(m) ==
    {c \in DOMAIN marker_detections : m \in DOMAIN marker_detections[c]}

\* the markers of the detection table
ObservedMarkers == UNION {DOMAIN marker_detections[c] : c \in DOMAIN marker_detections}

Exported == pc \in {"exported_t", "exported"}

\* marker m is seen by exactly the cameras 1..n, all of the table, each at the
\* exact projection of the world origin
NoiseFree(m, n) ==
    /\ ObservingCameras(m) = 1..n
    /\ 1..n \subseteq DOMAIN opencv_cameras
    /\ \A c \in 1..n : marker_detections[c][m].center = CentreOf(c, 0)

\* C1: every marker of the output dictionary is observed by at least
\* min_cameras distinct cameras; a marker observed by fewer never appears.
C1_MinimumCameraGate ==
    \A m \in DOMAIN triangulated_markers :
        Cardinality(ObservingCameras(m)) >= min_cameras

\* C1 witness: the call returned with min_cameras = 3, a marker seen by only 2
\* cameras absent and another marker present.
C1_Witness ==
    /\ pc = "done"
    /\ min_cameras = 3
    /\ \E m \in ObservedMarkers :
        /\ Cardinality(ObservingCameras(m)) = 2
        /\ m \notin DOMAIN triangulated_markers
    /\ DOMAIN triangulated_markers # {}

\* C2 as claimed: no marker of the output has a mean reprojection error above
\* the configured max_reprojection_error.
C2_ConfiguredThresholdRejects ==
    \A m \in DOMAIN triangulated_markers :
        RLeq(triangulated_markers[m].reprojection_error, <<max_reprojection_error, 1>>)

\* C3 as claimed: 4 cameras, noise-free centres, min_cameras = 3: the marker is
\* exported with observations_count 4, reprojection error 0 and quality "high".
C3_FourCamerasHigh ==
    \A m \in ObservedMarkers :
        (Exported /\ min_cameras = 3 /\ NoiseFree(m, 4)) =>
            /\ m \in DOMAIN triangulated_markers
            /\ triangulated_markers[m].observations_count = 4
            /\ triangulated_markers[m].reprojection_error = <<0, 1>>
            /\ blender_data.markers[m].quality = "high"

\* C3 amended: in that scenario the marker is exported with observations_count
\* 4, reprojection error 0, confidence 0.4 and quality "low".
C3_FourCamerasLow ==
    \A m \in ObservedMarkers :
        (Exported /\ min_cameras = 3 /\ NoiseFree(m, 4)) =>
            /\ m \in DOMAIN triangulated_markers
            /\ triangulated_markers[m].observations_count = 4
            /\ triangulated_markers[m].reprojection_error = <<0, 1>>
            /\ triangulated_markers[m].triangulation_confidence = <<2, 5>>
            /\ blender_data.markers[m].quality = "low"

\* C3 witness: the scenario has been run and its marker exported.
C3_Witness ==
    /\ Exported
    /\ min_cameras = 3
    /\ \E m \in ObservedMarkers :
        /\ NoiseFree(m, 4)
        /\ m \in DOMAIN blender_data.markers

\* C4: the confidence of every result of the output lies in [0, 1].
C4_ConfidenceInUnitInterval ==
    \A m \in DOMAIN triangulated_markers :
        LET c == triangulated_markers[m].triangulation_confidence
        IN c[2] > 0 /\ 0 <= c[1] /\ c[1] <= c[2]

\* C4 witness: min_cameras = 1, a result from 2 cameras with confidence 0 and a
\* result with confidence 1.
C4_Witness ==
    /\ pc = "done"
    /\ min_cameras = 1
    /\ \E m \in DOMAIN triangulated_markers :
        /\ triangulated_markers[m].observations_count = 2
        /\ triangulated_markers[m].triangulation_confidence = <<0, 1>>
    /\ \E m \in DOMAIN triangulated_markers :
        triangulated_markers[m].triangulation_confidence = <<1, 1>>

\* the pixel distance between camera c's centre of marker m and the exact
\* projection of the world origin, and the sum over the cameras observing m
OriginError(m, c) == Abs(marker_detections[c][m].center[1] - CentreOf(c, 0)[1])

OriginErrorSum(m) ==
    SeqSum([i \in 1..Cardinality(ObservingCameras(m)) |->
               OriginError(m, SortedSeq(ObservingCameras(m))[i])])

\* C5: for every result (here at the world origin, every camera valid) with n
\* observing cameras and s the sum of their errors, reprojection_error = s / n
\* and confidence = cf * ef with cf = 1 if n >= 7 else (n - 2) / 5 and
\* ef = 0 if s / n >= 200 else 1 - (s / n) / 200.
C5_ConfidenceFormula ==
    \A m \in DOMAIN triangulated_markers :
        LET r == triangulated_markers[m]
            n == Cardinality(ObservingCameras(m))
            s == OriginErrorSum(m)
            cf == IF n >= 7 THEN <<1, 1>> ELSE <<n - 2, 5>>
            ef == IF s >= 200 * n THEN <<0, 1>> ELSE <<200 * n - s, 200 * n>>
        IN /\ r.position_3d = [num |-> <<0, 0, 0>>, den |-> 1]
           /\ r.observations_count = n
           /\ r.reprojection_error[1] * n = s * r.reprojection_error[2]
           /\ r.triangulation_confidence[1] * (cf[2] * ef[2])
                  = cf[1] * ef[1] * r.triangulation_confidence[2]

\* C5 witness: a result from 8 cameras with mean error 200 (confidence 0) next
\* to a result from 7 cameras with mean error 100 (confidence 1/2).
C5_Witness ==
    /\ pc = "done"
    /\ \E m \in DOMAIN triangulated_markers :
        /\ triangulated_markers[m].observations_count = 8
        /\ triangulated_markers[m].reprojection_error = <<200, 1>>
        /\ triangulated_markers[m].triangulation_confidence = <<0, 1>>
    /\ \E m \in DOMAIN triangulated_markers :
        /\ triangulated_markers[m].observations_count = 7
        /\ triangulated_markers[m].reprojection_error = <<100, 1>>
        /\ triangulated_markers[m].triangulation_confidence = <<1, 2>>

\* C6: of two results with the same camera count the one with the larger mean
\* error has no larger confidence; of two results with the same mean error the
\* one with more cameras has no smaller confidence.
C6_ConfidenceMonotone ==
    \A a, b \in DOMAIN triangulated_markers :
        LET ra == triangulated_markers[a]
            rb == triangulated_markers[b]
        IN /\ (ra.observations_count = rb.observations_count
                 /\ RLeq(ra.reprojection_error, rb.reprojection_error))
              => RLeq(rb.triangulation_confidence, ra.triangulation_confidence)
           /\ (ra.reprojection_error = rb.reprojection_error
                 /\ ra.observations_count <= rb.observations_count)
              => RLeq(ra.triangulation_confidence, rb.triangulation_confidence)

\* C6 witness: two results from the same number of cameras, the one with the
\* strictly larger error having the strictly smaller confidence.
C6_Witness ==
    /\ pc = "done"
    /\ \E a, b \in DOMAIN triangulated_markers :
        /\ triangulated_markers[a].observations_count
               = triangulated_markers[b].observations_count
        /\ RLess(triangulated_markers[a].reprojection_error,
                 triangulated_markers[b].reprojection_error)
        /\ RLess(triangulated_markers[b].triangulation_confidence,
                 triangulated_markers[a].triangulation_confidence)

\* C7: once both exports are made, every marker of the output has one label in
\* each, the same in both: 'high' exactly for confidence >= 0.7, 'medium'
\* exactly for 0.5 <= confidence < 0.7, 'low' exactly below 0.5.
C7_QualityLabels ==
    pc = "exported" =>
        /\ DOMAIN blender_data.markers = DOMAIN triangulated_markers
        /\ DOMAIN exporter_data.markers = DOMAIN triangulated_markers
        /\ \A m \in DOMAIN triangulated_markers :
            LET c == triangulated_markers[m].triangulation_confidence
                q == blender_data.markers[m].quality
            IN /\ exporter_data.markers[m].quality = q
               /\ q \in {"high", "medium", "low"}
               /\ (q = "high") <=> (10 * c[1] >= 7 * c[2])
               /\ (q = "medium") <=> (10 * c[1] >= 5 * c[2] /\ 10 * c[1] < 7 * c[2])
               /\ (q = "low") <=> (10 * c[1] < 5 * c[2])

\* C7 witness: both exports made, one marker with confidence exactly 0.7 and
\* one with confidence exactly 0.5.
C7_Witness ==
    /\ pc = "exported"
    /\ \E m \in DOMAIN triangulated_markers :
        /\ triangulated_markers[m].triangulation_confidence = <<7, 10>>
        /\ blender_data.markers[m].quality = "high"
    /\ \E m \in DOMAIN triangulated_markers :
        /\ triangulated_markers[m].triangulation_confidence = <<1, 2>>
        /\ exporter_data.markers[m].quality = "medium"

\* the sum of coordinate k of the points at the indices idx
CoordinateSum(points, idx, k) ==
    SeqSum([j \in 1..Len(points) |-> IF j \in idx THEN points[j][k] ELSE 0])

\* position is the arithmetic mean of the points at the indices idx
IsMeanOf(position, points, idx) ==
    /\ idx # {}
    /\ \A k \in 1..3 :
        position.num[k] * Cardinality(idx) = position.den * CoordinateSum(points, idx, k)

\* candidate i lies at least 100 world units (4000 ticks) from every other
\* candidate, and the others lie within 0.1 world units (4 ticks) of each other
FarOutlier(points, i) ==
    /\ \A j \in DOMAIN points \ {i} : Norm(Vec3Sub(points[i], points[j])) >= 4000
    /\ \A j, k \in DOMAIN points \ {i} : Norm(Vec3Sub(points[j], points[k])) <= 4

\* the results cv2.triangulatePoints gave that are finite points
FiniteResults == {e \in cv2_memo : ~e[2].raises /\ e[2].points_4d[4] # 0}

\* C8: when the 10 pairwise candidates of a marker seen by 5 cameras hold one
\* far outlier and the other 9 agree within 0.1 world units, aggregation keeps
\* exactly the 9 and the consensus position is their arithmetic mean.
C8_OutlierExcluded ==
    [][\A i \in DOMAIN triangulated_points :
          (pc = "aggregate" /\ Len(camera_ids) = 5 /\ Len(triangulated_points) = 10
             /\ FarOutlier(triangulated_points, i))
          => /\ pc' = "score"
             /\ triangulated_points' =
                    SelectIdx(triangulated_points, DOMAIN triangulated_points \ {i}, 1)
             /\ IsMeanOf(final_3d_position', triangulated_points,
                         DOMAIN triangulated_points \ {i})]_vars

\* C8 witness: 5 cameras, 10 finite candidates one of which is the far one, 9
\* left after aggregation, not all equal.
C8_Witness ==
    /\ pc = "score"
    /\ Len(camera_ids) = 5
    /\ Cardinality(FiniteResults) = 10
    /\ \E e \in FiniteResults : e[2] = Homogeneous(4000, 1)
    /\ Len(triangulated_points) = 9
    /\ final_3d_position.num[1] # 0

\* the candidates whose distance to the coordinate-wise median point is at
\* most 2 * medDist + 0.1, for a list of any length
WithinTwoMedians(points) ==
    {i \in DOMAIN points :
        Distances(points)[i] <= 2 * Median(Distances(points)) + 4}

\* C9: for every non-empty candidate list, of any length, aggregation succeeds
\* and the consensus position is the arithmetic mean of exactly the candidates
\* within 2 * medDist + 0.1 of the coordinate-wise median point.
C9_ConsensusIsMeanOfKept ==
    [][(pc = "aggregate" /\ triangulated_points # << >>)
          => /\ pc' = "score"
             /\ triangulated_points' =
                    SelectIdx(triangulated_points, WithinTwoMedians(triangulated_points), 1)
             /\ IsMeanOf(final_3d_position', triangulated_points,
                         WithinTwoMedians(triangulated_points))]_vars

\* C9 witness: aggregation has dropped a finite candidate and kept at least two.
C9_Witness ==
    /\ pc = "score"
    /\ Len(triangulated_points) >= 2
    /\ Len(triangulated_points) < Cardinality(FiniteResults)

\* C10: a second call of triangulate_markers on the same tables and parameters
\* returns the output the first call returned.
C10_RepeatedCallSameOutput ==
    (pc = "done" /\ run = 2) => triangulated_markers = first_output

\* C10 witness: the second call has returned two markers at different positions.
C10_Witness ==
    /\ pc = "done"
    /\ run = 2
    /\ DOMAIN triangulated_markers = {1, 2}
    /\ triangulated_markers[1].position_3d # triangulated_markers[2].position_3d

\* the cameras of the table whose detections contain marker m
TableObservers(m) == ObservingCameras(m) \cap DOMAIN opencv_cameras

\* the results cv2.triangulatePoints gave for the pairs of marker m
PairResults(m) ==
    {e \in cv2_memo :
        \E a, b \in TableObservers(m) :
            /\ a < b
            /\ e[1] = <<a, b, marker_detections[a][m].center,
                         marker_detections[b][m].center>>}

\* every pair of marker m has given no finite point (or there is no pair)
AllPairsDegenerate(m) ==
    \A a, b \in TableObservers(m) :
        a < b => \E e \in PairResults(m) :
                    /\ e[1][1] = a
                    /\ e[1][2] = b
                    /\ (e[2].raises \/ e[2].points_4d[4] = 0)

\* marker m (whose candidates all lie at the world origin) passes every gate:
\* enough cameras, no exception, a candidate, a mean error of at most 200
PassesAllGates(m) ==
    /\ Cardinality(TableObservers(m)) >= min_cameras
    /\ \A c \in TableObservers(m) : ~ProjectionMatrixRaises(opencv_cameras[c])
    /\ ~AllPairsDegenerate(m)
    /\ OriginErrorSum(m) <= 200 * Cardinality(ObservingCameras(m))

\* C11: triangulate_all_markers never lets an exception of a marker's
\* processing escape, and when it returns the output holds exactly the markers
\* that pass every gate: a marker that raised, got no candidate or was rejected
\* by scoring is absent and takes no other marker with it.
C11_FailureIsolation ==
    /\ pc # "crashed"
    /\ pc = "done" =>
          \A m \in ObservedMarkers :
              m \in DOMAIN triangulated_markers <=> PassesAllGates(m)

\* C11 witness: the call returned; the marker processed first raised on the
\* broken camera, the marker processed after it is in the output.
C11_Witness ==
    /\ pc = "done"
    /\ Len(marker_order) = 2
    /\ Cardinality(TableObservers(marker_order[1])) >= min_cameras
    /\ \E c \in TableObservers(marker_order[1]) :
           ProjectionMatrixRaises(opencv_cameras[c])
    /\ marker_order[1] \notin DOMAIN triangulated_markers
    /\ marker_order[2] \in DOMAIN triangulated_markers

\* C12 as claimed: when triangulate_markers returns an empty dictionary, the
\* pipeline ends like a successful run with zero markers: success is set,
\* markers_triangulated is 0 and no error is recorded.
C12_EmptyResultIsNotAFailure ==
    (pc = "finished" /\ DOMAIN triangulated_markers = {}) =>
        /\ results.success
        /\ results.markers_triangulated = 0
        /\ results.errors = << >>

\* C13: after a second call that differs from the first in the observations
\* of the other markers only (markers added, removed, processed before or
\* after it), marker 2 is in the output exactly if it was in the first output,
\* and with the same result in every field.
C13_OwnObservationsOnly ==
    (pc = "done" /\ run = 2) =>
        IF 2 \in DOMAIN first_output
        THEN 2 \in DOMAIN triangulated_markers
                 /\ triangulated_markers[2] = first_output[2]
        ELSE 2 \notin DOMAIN triangulated_markers

\* C13 witness: the second call returned marker 2, away from the origin, after
\* processing another marker before it; the first call had returned marker 2
\* alone.
C13_Witness ==
    /\ pc = "done"
    /\ run = 2
    /\ DOMAIN first_output = {2}
    /\ 2 \in DOMAIN triangulated_markers
    /\ triangulated_markers[2].position_3d.num # <<0, 0, 0>>
    /\ marker_order[1] = 1
    /\ 1 \in DOMAIN triangulated_markers

\* C14: within a call every marker moves forward only -- taken from the loop
\* (Collecting), pair loop, aggregation, scoring, back to the loop with its
\* result accepted or rejected; it stays the same marker throughout; a marker
\* is taken at most once and the call returns only when every marker has been
\* taken; the output changes only at the end of scoring, by the one entry of
\* the marker being scored, which was not there before.
C14_StagesInOrderOnce ==
    [][/\ (pc = "pairs" => pc' \in {"pairs", "aggregate"})
       /\ (pc = "aggregate" => pc' \in {"score", "loop"})
       /\ (pc = "score" => pc' = "loop")
       /\ (pc \in {"pairs", "aggregate", "score"} =>
              marker_id' = marker_id /\ next_marker' = next_marker)
       /\ ((pc = "loop" /\ pc' \in {"pairs", "aggregate"}) =>
              /\ marker_id' = marker_order[next_marker]
              /\ next_marker' = next_marker + 1
              /\ \A k \in 1..(next_marker - 1) : marker_order[k] # marker_id')
       /\ ((pc = "loop" /\ pc' = "done") => next_marker = Len(marker_order) + 1)
       /\ ((pc # "start" /\ triangulated_markers' # triangulated_markers) =>
              /\ pc = "score"
              /\ marker_id \notin DOMAIN triangulated_markers
              /\ DOMAIN triangulated_markers' = DOMAIN triangulated_markers \cup {marker_id}
              /\ \A m \in DOMAIN triangulated_markers :
                     triangulated_markers'[m] = triangulated_markers[m])]_vars

\* C14 witness: the second call returned after two markers went through the
\* stages, the first accepted and the second rejected.
C14_Witness ==
    /\ pc = "done"
    /\ run = 2
    /\ marker_order = <<1, 2>>
    /\ Cardinality(ObservingCameras(2)) >= min_cameras
    /\ DOMAIN triangulated_markers = {1}

\* the cameras loaded with a 35mm focal length that is not positive
NonPositiveFocal == {c \in DOMAIN xmp_cameras : xmp_cameras[c].focal_length <= 0}

\* C15 as claimed: once the cameras are converted, no camera whose 35mm focal
\* length is <= 0 is in the camera table, and no result counts such a camera
\* among its observing cameras.
C15_NonPositiveFocalExcluded ==
    pc \notin {"load", "convert"} =>
        /\ NonPositiveFocal \cap DOMAIN opencv_cameras = {}
        /\ \A m \in DOMAIN triangulated_markers :
               Range(triangulated_markers[m].camera_ids) \cap NonPositiveFocal = {}

\* the text is not exactly n numbers
NotNumbers(text, n) == Len(text) # n \/ \E i \in DOMAIN text : ~text[i].is_float

\* the XMP files whose position is not 3 numbers or whose rotation is not 9
MalformedVector ==
    {c \in DOMAIN xmp_files :
        NotNumbers(xmp_files[c].Position, 3) \/ NotNumbers(xmp_files[c].Rotation, 9)}

\* C16 as claimed: once the cameras are loaded, a camera whose XMP file has a
\* malformed position or rotation is neither among the loaded cameras nor,
\* later, in the camera table, while every camera with a good file is loaded.
C16_MalformedVectorRejected ==
    pc # "load" =>
        /\ MalformedVector \cap DOMAIN xmp_cameras = {}
        /\ MalformedVector \cap DOMAIN opencv_cameras = {}
        /\ \A c \in DOMAIN xmp_files :
               xmp_files[c] = GoodXmpFile(c) => c \in DOMAIN xmp_cameras

\* the sum of the fields names of the record metadata
RECURSIVE FieldSum(_, _)
FieldSum(metadata, names) ==
    IF names = {} THEN 0
    ELSE LET f == CHOOSE f \in names : TRUE
         IN metadata[f] + FieldSum(metadata, names \ {f})

\* the export's metadata counts the records: total is their number, and the
\* other marker counts are one per quality label, each the number of records
\* with that label, so that they sum to the total
CountsPerBucket(export, total) ==
    LET buckets == DOMAIN export.metadata \ {total}
        labelled(q) == {m \in DOMAIN export.markers : export.markers[m].quality = q}
    IN /\ export.metadata[total] = Cardinality(DOMAIN export.markers)
       /\ \A q \in {"high", "medium", "low"} :
              \E f \in buckets : export.metadata[f] = Cardinality(labelled(q))
       /\ FieldSum(export.metadata, buckets) = export.metadata[total]

\* C17 as claimed: the metadata of both exports report the total number of
\* markers and a count for each of the labels high, medium and low, which sum
\* to the total.
C17_BucketCountsSumToTotal ==
    pc = "exported" =>
        /\ CountsPerBucket(blender_data, "total_markers")
        /\ CountsPerBucket(exporter_data, "markers_total")

\* the world points of the round-trip check
RoundTripPoints == {<<x, y, z>> : x \in {-8, 0, 8}, y \in {-4, 0}, z \in {0, 8}}

\* the world point X projects, in every camera that sees marker m, to the
\* centre that camera observed
ExactProjections(m, X) ==
    \A c \in ObservingCameras(m) :
        c \in DOMAIN opencv_cameras
            /\ marker_detections[c][m].center = project_point(opencv_cameras[c], X)

\* C18: for every camera of the table and every world point X, the projection
\* matrix P = K [R | -R C] and the mapping K R (X - C) of the scoring give the
\* same homogeneous pixel; and a marker observed by at least 3 cameras at the
\* exact projections of X is returned with position X and reprojection
\* error 0.
C18_ProjectionRoundTrip ==
    /\ \A c \in DOMAIN opencv_cameras : \A X \in RoundTripPoints :
           LET cam == opencv_cameras[c]
           IN MatVec(create_projection_matrix(cam.camera_matrix, cam.rotation,
                                              cam.position), X \o <<1>>)
                  = MatVec(cam.camera_matrix,
                           MatVec(cam.rotation, Vec3Sub(X, cam.position)))
    /\ pc = "done" =>
           \A m \in ObservedMarkers : \A X \in RoundTripPoints :
               (Cardinality(ObservingCameras(m)) >= 3 /\ ExactProjections(m, X)) =>
                   /\ m \in DOMAIN triangulated_markers
                   /\ triangulated_markers[m].position_3d = [num |-> X, den |-> 1]
                   /\ triangulated_markers[m].reprojection_error = <<0, 1>>

\* C18 witness: the call returned the marker at 0.2 world units, seen by four
\* cameras among them the side camera, after pairs triangulated in both scales.
C18_Witness ==
    /\ pc = "done"
    /\ ExactProjections(1, <<8, 0, 0>>)
    /\ ObservingCameras(1) = 1..4
    /\ 1 \in DOMAIN triangulated_markers
    /\ \E e \in cv2_memo : e[2].points_4d[4] = 1
    /\ \E e \in cv2_memo : e[2].points_4d[4] = -2

\* C19: once detection has run, every marker id of every camera's detections,
\* and so every marker id that is triangulated, lies in 1..MAX_VALID_MARKER_ID.
C19_MarkerIdsInRange ==
    pc \notin {"load", "convert", "detect"} =>
        /\ \A c \in DOMAIN marker_detections :
               DOMAIN marker_detections[c] \subseteq 1..MAX_VALID_MARKER_ID
        /\ DOMAIN triangulated_markers \subseteq 1..MAX_VALID_MARKER_ID

\* the index pairs (a, b), a < b, of n cameras that the pair loop reaches
\* before (i, j)
PairsBefore(i, j, n) ==
    {p \in (1..n) \X (1..n) : p[1] < p[2] /\ (p[1] < i \/ (p[1] = i /\ p[2] < j))}

\* the camera pairs cv2.triangulatePoints has been called on
AttemptedPairs == {<<e[1][1], e[1][2]>> : e \in cv2_memo}

\* the camera pairs of the index pairs
CamerasOf(index_pairs) == {<<camera_ids[p[1]], camera_ids[p[2]]>> : p \in index_pairs}

\* n * (n - 1) / 2
UnorderedPairCount(n) == (n * (n - 1)) \div 2

\* C20: for a marker observed by n cameras the pair loop attempts each
\* unordered pair of distinct cameras exactly once: every attempt is on a pair
\* (a, b), a # b, of which neither (a, b) nor (b, a) was attempted before, in
\* the middle of the loop the attempted pairs are those before the loop
\* position, and at its end they are all n (n - 1) / 2 pairs; the candidates
\* handed to the aggregation are one per finite result, so at most
\* n (n - 1) / 2, and exactly that many when no pair is degenerate.
C20_EachPairOnce ==
    /\ [](pc \in {"pairs", "aggregate"} =>
            LET n == Len(camera_ids)
                reached == IF pc = "pairs" THEN PairsBefore(pair[1], pair[2], n)
                                           ELSE PairsBefore(n, n, n)
            IN /\ AttemptedPairs = CamerasOf(reached)
               /\ Cardinality(cv2_memo) = Cardinality(reached)
               /\ \A q \in AttemptedPairs : q[1] # q[2] /\ <<q[2], q[1]>> \notin AttemptedPairs
               /\ Len(triangulated_points) = Cardinality(FiniteResults)
               /\ pc = "aggregate" =>
                      /\ Cardinality(cv2_memo) = UnorderedPairCount(n)
                      /\ Len(triangulated_points) <= UnorderedPairCount(n)
                      /\ FiniteResults = cv2_memo =>
                             Len(triangulated_points) = UnorderedPairCount(n))
    /\ [][pc = "pairs" =>
            LET q == <<camera_ids[pair[1]], camera_ids[pair[2]]>>
            IN /\ q[1] # q[2]
               /\ q \notin AttemptedPairs
               /\ <<q[2], q[1]>> \notin AttemptedPairs
               /\ \E outcome \in cv2_outcomes[q] :
                      /\ cv2_memo' \ cv2_memo =
                             {<<PairArguments(markers_observations[marker_id],
                                              q[1], q[2]), outcome>>}
                      /\ Cardinality(cv2_memo') = Cardinality(cv2_memo) + 1]_vars

\* C20 witness: the pair loop of a marker seen by four cameras has ended after
\* six attempts, one of them without a finite point, with five candidates.
C20_Witness ==
    /\ pc = "aggregate"
    /\ Len(camera_ids) = 4
    /\ Cardinality(cv2_memo) = 6
    /\ Cardinality(FiniteResults) = 5
    /\ Len(triangulated_points) = 5

\* the result of a pair is degenerate: an exception, or a homogeneous point
\* whose fourth coordinate is 0, which converts to a point that is not finite
Degenerate(outcome) == outcome.raises \/ outcome.points_4d[4] = 0

\* the 3D points of the finite results
FinitePoints == {convert_homogeneous_to_3d(e[2].points_4d).v : e \in FiniteResults}

\* C21: a pair whose result is degenerate adds no candidate, and the pair loop
\* goes on to the next pair or to the aggregation; the candidates of the
\* aggregation are the points of the finite results, one each; when at least
\* one pair gave a finite point the marker goes on to the scoring with a
\* consensus position that is the mean of candidates of finite results.
C21_DegeneratePairDiscarded ==
    /\ [](pc \in {"aggregate", "score"} =>
            /\ Range(triangulated_points) \subseteq FinitePoints
            /\ Len(triangulated_points) <= Cardinality(FiniteResults)
            /\ pc = "aggregate" => Len(triangulated_points) = Cardinality(FiniteResults))
    /\ [][/\ pc = "pairs" =>
               \A e \in cv2_memo' \ cv2_memo :
                   IF Degenerate(e[2])
                   THEN /\ triangulated_points' = triangulated_points
                        /\ pc' \in {"pairs", "aggregate"}
                        /\ marker_id' = marker_id
                   ELSE triangulated_points' =
                            Append(triangulated_points,
                                   convert_homogeneous_to_3d(e[2].points_4d).v)
          /\ (pc = "aggregate" /\ FiniteResults # {}) =>
               /\ pc' = "score"
               /\ triangulated_points' # << >>
               /\ \E idx \in SUBSET DOMAIN triangulated_points :
                      /\ idx # {}
                      /\ IsMeanOf(final_3d_position', triangulated_points, idx)]_vars

\* C21 witness: a marker seen by three cameras is being scored after one pair
\* raised, one gave a point at infinity and one gave a finite point.
C21_Witness ==
    /\ pc = "score"
    /\ Len(camera_ids) = 3
    /\ \E e \in cv2_memo : e[2].raises
    /\ \E e \in cv2_memo : ~e[2].raises /\ e[2].points_4d[4] = 0
    /\ Len(triangulated_points) = 1

\* the depth of the rational point in the camera of observation obs, times the
\* point's denominator (which is positive): the third coordinate of R (X - C)
DepthOf(obs, point_3d) ==
    MatVec(obs.camera_data.rotation,
           Vec3Sub(point_3d.num, Vec3Scale(point_3d.den, obs.camera_data.position)))[3]

\* the distance in pixels, in the image of observation obs, between the
\* observed centre and the projection of the rational point (depth not 0);
\* in the scenes the two lie on one image row
PixelError(obs, point_3d) ==
    LET point_camera == MatVec(obs.camera_data.rotation,
                               Vec3Sub(point_3d.num,
                                       Vec3Scale(point_3d.den, obs.camera_data.position)))
        K == obs.camera_data.camera_matrix
        u == Rat(K[1][1] * point_camera[1] + K[1][3] * point_camera[3], point_camera[3])
        du == RAdd(u, <<-obs.center[1], 1>>)
    IN <<Abs(du[1]), du[2]>>

\* the sum of the pixel errors of the cameras of the set cams
RECURSIVE PixelErrorSum(_, _, _)
PixelErrorSum(observations, cams, point_3d) ==
    IF cams = {} THEN <<0, 1>>
    ELSE LET c == CHOOSE c \in cams : TRUE
         IN RAdd(PixelError(observations[c], point_3d),
                 PixelErrorSum(observations, cams \ {c}, point_3d))

\* the scoring step emits the marker with the mean of the pixel errors of the
\* cameras of the set counted as its reprojection error, or emits nothing
ScoresOver(counted) ==
    /\ pc' = "loop"
    /\ DOMAIN triangulated_markers' \subseteq DOMAIN triangulated_markers \cup {marker_id}
    /\ \A m \in DOMAIN triangulated_markers \ {marker_id} :
           triangulated_markers'[m] = triangulated_markers[m]
    /\ IF counted = {}
       THEN triangulated_markers' = triangulated_markers
       ELSE LET avg == RMul(PixelErrorSum(markers_observations[marker_id], counted,
                                          final_3d_position),
                            <<1, Cardinality(counted)>>)
            IN IF RLess(<<HardErrorLimit, 1>>, avg)
               THEN triangulated_markers' = triangulated_markers
               ELSE /\ marker_id \in DOMAIN triangulated_markers'
                    /\ triangulated_markers'[marker_id].reprojection_error = avg

\* C22: the scoring skips the cameras that have the consensus point at depth
\* 0; the average error is the mean over the other cameras of the marker; when
\* there is no other camera the marker is left out of the output and the
\* marker loop goes on.
C22_ZeroDepthCameraSkipped ==
    [][pc = "score" =>
          ScoresOver({c \in Range(camera_ids) :
                         DepthOf(markers_observations[marker_id][c],
                                 final_3d_position) # 0})]_vars

\* C22 witness: the call returned after a marker seen by the cameras 1, 2 and 4
\* got the consensus 1 world unit, at depth 0 of camera 4, and was emitted,
\* and with another marker emitted as well.
C22_Witness ==
    /\ pc = "done"
    /\ ObservingCameras(1) = {1, 2, 4}
    /\ 1 \in DOMAIN triangulated_markers
    /\ triangulated_markers[1].position_3d = [num |-> <<40, 0, 0>>, den |-> 1]
    /\ triangulated_markers[1].reprojection_error = <<40, 1>>
    /\ 2 \in DOMAIN triangulated_markers

\* C23: the scoring counts only the cameras that have the consensus point in
\* front of them (depth greater than 0); a camera with the point behind it or
\* in its plane contributes no error to the mean.
C23_OnlyCamerasInFrontScore ==
    [][pc = "score" =>
          ScoresOver({c \in Range(camera_ids) :
                         DepthOf(markers_observations[marker_id][c],
                                 final_3d_position) > 0})]_vars

\* the positions of pc inside a call of triangulate_all_markers
InsideCall == pc \in {"start", "loop", "pairs", "aggregate", "score"}

\* C24: no step of triangulate_all_markers changes the camera table or the
\* observation table, whatever the input and whether the marker in hand is
\* accepted, rejected or raises.
C24_InputsUnchanged ==
    [][InsideCall =>
          /\ opencv_cameras' = opencv_cameras
          /\ marker_detections' = marker_detections]_vars

\* C24 witness: the call returned on a table with a broken camera, with one
\* marker accepted and one with enough cameras rejected.
C24_Witness ==
    /\ pc = "done"
    /\ \E c \in DOMAIN opencv_cameras : ProjectionMatrixRaises(opencv_cameras[c])
    /\ \E m \in ObservedMarkers : m \in DOMAIN triangulated_markers
    /\ \E m \in ObservedMarkers :
           /\ m \notin DOMAIN triangulated_markers
           /\ Cardinality(ObservingCameras(m)) >= min_cameras

\* C25: for every converted camera, 36 fx = focal_length * image_width,
\* fy = fx * aspect_ratio, 2 cx = image_width + principal_point_u * image_width,
\* 2 cy = image_height + principal_point_v * image_height and the camera matrix
\* is [[fx, 0, cx], [0, fy, cy], [0, 0, 1]]; cameras with the same record get
\* the same parameters; and the conversion leaves the records as they were.
C25_CameraMatrixFormulas ==
    /\ [](pc = "detect" =>
            /\ \A c \in DOMAIN opencv_cameras :
                  LET K == opencv_cameras[c].camera_matrix
                      xmp_data == xmp_cameras[c]
                      image_width == opencv_cameras[c].image_size[1]
                      image_height == opencv_cameras[c].image_size[2]
                  IN /\ SensorWidth35mm * K[1][1] = xmp_data.focal_length * image_width
                     /\ K[2][2] = K[1][1] * xmp_data.aspect_ratio
                     /\ 2 * K[1][3] = image_width + xmp_data.principal_point_u * image_width
                     /\ 2 * K[2][3] = image_height + xmp_data.principal_point_v * image_height
                     /\ K = <<<<K[1][1], 0, K[1][3]>>, <<0, K[2][2], K[2][3]>>, <<0, 0, 1>>>>
            /\ \A c, d \in DOMAIN opencv_cameras :
                  [xmp_cameras[c] EXCEPT !.position = <<0, 0, 0>>]
                          = [xmp_cameras[d] EXCEPT !.position = <<0, 0, 0>>]
                      => opencv_cameras[c].camera_matrix = opencv_cameras[d].camera_matrix)
    /\ [][pc = "convert" => xmp_cameras' = xmp_cameras /\ xmp_files' = xmp_files]_vars

\* C25 witness: a camera of 72 mm, aspect ratio 2 and principal point (1, -1)
\* has been converted for an image of 72 x 108 pixels, and the second camera,
\* of the same attributes, with it.
C25_Witness ==
    /\ pc = "detect"
    /\ DOMAIN opencv_cameras = {1, 2}
    /\ opencv_cameras[1].image_size = <<72, 108>>
    /\ opencv_cameras[1].camera_matrix = <<<<144, 0, 72>>, <<0, 288, 0>>, <<0, 0, 1>>>>
    /\ opencv_cameras[2].camera_matrix = opencv_cameras[1].camera_matrix

\* C26: on the same camera table, detections and min_cameras, with an error
\* threshold of 200 pixels, EmbeddedTriangulator.triangulate_markers returns
\* the dictionary triangulate_all_markers returned: the same marker ids, each
\* with the same position, reprojection error, confidence, observations_count
\* and camera ids.
C26_EmbeddedSameOutput ==
    pc = "e_done" => triangulated_markers = first_output

\* the methods run_detection_pipeline calls, in the order of lines 561-575
PipelineSteps ==
    <<"validate_input_data", "stage_1_load_cameras", "stage_2_convert_cameras",
      "stage_3_detect_markers", "stage_4_prepare_triangulation_data">>

\* the stage names the four stages record, in that order
StageNames ==
    <<"load_cameras", "convert_cameras", "detect_markers", "prepare_triangulation">>

\* the number of positions of the sequence s that hold x
Occurrences(s, x) == Cardinality({i \in DOMAIN s : s[i] = x})

\* C27: run_detection_pipeline calls validation and the stages 1 to 4 in this
\* order, each only after every earlier one returned True, and none after one
\* that returned False; every stage that ran is recorded once, in
\* stages_completed if it returned True and in stages_failed otherwise, and a
\* stage that did not run in neither; the method returns True only with
\* stages_completed holding the four stage names in order and stages_failed
\* empty.
C27_StagesInOrderUntilFailure ==
    /\ Len(stage_calls) <= Len(PipelineSteps)
    /\ \A i \in DOMAIN stage_calls :
           /\ stage_calls[i].method = PipelineSteps[i]
           /\ i < Len(stage_calls) => stage_calls[i].returned
    /\ \A k \in DOMAIN StageNames :
           LET ran == k + 1 \in DOMAIN stage_calls
               completed == Occurrences(pipeline_stats.stages_completed, StageNames[k])
               failed == Occurrences(pipeline_stats.stages_failed, StageNames[k])
           IN IF ran
              THEN /\ completed + failed = 1
                   /\ completed = 1 <=> stage_calls[k + 1].returned
              ELSE completed + failed = 0
    /\ pc = "returned_true" =>
           /\ pipeline_stats.stages_completed = StageNames
           /\ pipeline_stats.stages_failed = << >>
    /\ pc = "returned_false" =>
           \/ \E i \in DOMAIN stage_calls : ~stage_calls[i].returned
           \/ Len(stage_calls) = Len(PipelineSteps)

\* C27 witness: the method has returned False after stage 2 failed: stage 1 is
\* recorded as completed, stage 2 as failed, and stages 3 and 4 did not run.
C27_Witness ==
    /\ pc = "returned_false"
    /\ Len(stage_calls) = 3
    /\ pipeline_stats.stages_completed = <<"load_cameras">>
    /\ pipeline_stats.stages_failed = <<"convert_cameras">>
    /\ DOMAIN xmp_cameras # {}
    /\ DOMAIN opencv_cameras = {}

\* the candidates of the list points whose distance to the median point is at
\* most twice the median distance plus 0.1 world units
CloseToMedian(points) ==
    LET median_point == MedianPoint(points)
        distance(i) == Norm(Vec3Sub(points[i], median_point))
        median_distance == Median([i \in DOMAIN points |-> distance(i)])
    IN {i \in DOMAIN points : distance(i) <= 2 * median_distance + OutlierMargin}

\* C28: of a non-empty candidate list at least half the candidates lie within
\* twice the median distance plus 0.1 of the median point; the aggregation
\* keeps at least one candidate, and at least half of them, and goes on to the
\* scoring; it ends the marker only when the candidate list is empty.
C28_FilterKeepsHalf ==
    /\ [](pc = "aggregate" /\ triangulated_points # << >> =>
            2 * Cardinality(CloseToMedian(triangulated_points))
                >= Len(triangulated_points))
    /\ [][pc = "aggregate" =>
            IF triangulated_points = << >>
            THEN pc' = "loop"
            ELSE /\ pc' = "score"
                 /\ Len(triangulated_points') >= 1
                 /\ 2 * Len(triangulated_points') >= Len(triangulated_points)]_vars

\* C28 witness: a marker seen by four cameras is being scored after the filter
\* removed two of its six candidates.
C28_Witness ==
    /\ pc = "score"
    /\ Len(camera_ids) = 4
    /\ Cardinality(FiniteResults) = 6
    /\ Len(triangulated_points) = 4

\* C29: the observations of a camera without an entry in the camera table are
\* left out by the grouping: the grouped observations and the pairs
\* triangulated hold table cameras only, a result's cameras are the table
\* cameras that observe the marker, at least min_cameras of them, and every
\* camera id of a result is a key of the camera table.
C29_UnknownCamerasIgnored ==
    /\ \A m \in DOMAIN markers_observations :
           DOMAIN markers_observations[m] = TableObservers(m)
    /\ \A e \in cv2_memo : {e[1][1], e[1][2]} \subseteq DOMAIN opencv_cameras
    /\ \A m \in DOMAIN triangulated_markers :
           /\ Range(triangulated_markers[m].camera_ids) = TableObservers(m)
           /\ Range(triangulated_markers[m].camera_ids) \subseteq DOMAIN opencv_cameras
           /\ triangulated_markers[m].observations_count = Cardinality(TableObservers(m))
           /\ Cardinality(TableObservers(m)) >= min_cameras

\* C29 witness: the call returned on detections of three cameras, the third
\* without an entry in the table, with min_cameras = 2: the marker seen by all
\* three is returned with the cameras 1 and 2, the marker seen by the cameras
\* 2 and 3 is absent.
C29_Witness ==
    /\ pc = "done"
    /\ min_cameras = 2
    /\ DOMAIN opencv_cameras = {1, 2}
    /\ \E m \in DOMAIN triangulated_markers :
           /\ ObservingCameras(m) = {1, 2, 3}
           /\ triangulated_markers[m].camera_ids = <<1, 2>>
    /\ \E m \in ObservedMarkers :
           /\ ObservingCameras(m) = {2, 3}
           /\ m \notin DOMAIN triangulated_markers

\* C30: every entry of the output dictionary has its key as marker_id, an
\* observed marker; observations_count is the length of camera_ids, whose
\* cameras are pairwise distinct and are all the cameras that observed the
\* marker, scored or not, at least max(min_cameras, 2) of them; the
\* reprojection error is a number that is not negative.
C30_ResultsWellFormed ==
    \A m \in DOMAIN triangulated_markers :
        LET result == triangulated_markers[m]
        IN /\ result.marker_id = m
           /\ m \in ObservedMarkers
           /\ result.observations_count = Len(result.camera_ids)
           /\ Cardinality(Range(result.camera_ids)) = Len(result.camera_ids)
           /\ Range(result.camera_ids) = ObservingCameras(m)
           /\ result.observations_count >= Max(min_cameras, 2)
           /\ result.reprojection_error[2] > 0
           /\ result.reprojection_error[1] >= 0

\* C30 witness: with min_cameras = 1 the call returned a marker seen by the
\* cameras 1, 2 and 4 with observations_count 3 although camera 4, at depth 0
\* of the consensus, was not scored, and no marker seen by one camera.
C30_Witness ==
    /\ pc = "done"
    /\ min_cameras = 1
    /\ 1 \in DOMAIN triangulated_markers
    /\ triangulated_markers[1].camera_ids = <<1, 2, 4>>
    /\ triangulated_markers[1].observations_count = 3
    /\ triangulated_markers[1].position_3d = [num |-> <<40, 0, 0>>, den |-> 1]

=============================================================================
